---- MODULE Spec2Model ----
(***************************************************************************)
(* mite-mcp: the HTTP session layer of src/src/index.ts (runHttpServer).   *)
(*                                                                         *)
(* One Node process runs one event loop.  Every action below is one        *)
(* event-loop task: the 'request' listener up to its first real            *)
(* suspension, the 'end' listener of a POST body, the completion of a tool *)
(* execution, a transport's close notification.  Awaits on promises that   *)
(* are already settled (server.connect, the initialize handler) resolve in *)
(* the microtask queue of the same task and therefore belong to the same   *)
(* action.                                                                 *)
(*                                                                         *)
(* The session table `transports`, the transports created by the handler   *)
(* and the single dispatcher (`server`) every transport is connected to    *)
(* are the state.  `last` records what the most recent task did, so that   *)
(* properties of "every response" are invariants over `last`.              *)
(*                                                                         *)
(* The SDK classes the handler configures and calls (Server and            *)
(* StreamableHTTPServerTransport) are modelled at those call sites: a      *)
(* Server keeps one transport, the one connected last; a transport         *)
(* validates the Host header, generates its session id on 'initialize',    *)
(* answers through the response stream it holds for a request id, and      *)
(* calls onclose when it is closed.                                        *)
(***************************************************************************)
EXTENDS Integers, FiniteSets, Sequences, TLC

----------------------------------------------------------------------------
(* Bounds of the exploration *)

\* transports the handler may construct (one per initialization attempt)
MaxTransports == 2
\* JSON-RPC request ids a client uses: 1..MaxRpcId
MaxRpcId == 1
\* POST requests whose body is still being buffered
MaxBuffered == 1

----------------------------------------------------------------------------
(* Values *)

\* req.headers['mcp-session-id'] is undefined
NoSid == 0
\* no transport (undefined)
NoT == 0
\* no JSON-RPC id
NoRpc == 0
\* a Host header without a port
NoPort == 0
\* no status line written
NoStatus == 0

TransportIds == 1..MaxTransports
\* session ids are generated by randomUUID: fresh, never repeated.  The
\* n-th generated id is modelled as n.
SessionIds == 1..MaxTransports
RpcIds == 1..MaxRpcId
\* the values of the Mcp-Session-Id header
Sids == {NoSid} \cup SessionIds

Methods == {"OPTIONS", "POST", "GET", "DELETE", "PUT"}

\* the pathname of the parsed URL
Urls == {"/", "/mcp", "/other"}

\* What JSON.parse(body) yields: a SyntaxError ("invalid"), the value null
\* (reading .method of it throws a TypeError), an object whose method is
\* 'initialize', an object with another method: a JSON-RPC notification (no
\* id, nothing to answer) or a JSON-RPC request that calls a tool.
SessionBodies == {"invalid", "null", "initialize", "notification"}
Bodies == SessionBodies \cup {"tools/call"}

\* --host and --port of the command line
ConfigHosts == {"example.com"}
ConfigPorts == {3000}

Host(n, p) == [name |-> n, port |-> p]

\* Host headers the clients send
HostHeaders ==
    { Host("example.com", 3000), Host("localhost", NoPort),
      Host("example.com", 8080), Host("evil.com", 3000) }

\* a header the handler did not read
Unread == Host("", NoPort)

----------------------------------------------------------------------------
VARIABLES
    options,      \* ServerOptions: host and port
    transports,   \* the session table: session id -> transport
    nextT,        \* number of transports constructed so far
    nextSid,      \* number of session ids generated so far
    sessionId,    \* transport.sessionId of every transport (NoSid: undefined)
    streams,      \* per transport: JSON-RPC ids with an open response stream
    ended,        \* per transport: "closed" once it has signalled closure,
                  \* "deleted" once a DELETE has terminated it, else "live"
    srvTransport, \* the dispatcher's transport (Protocol._transport)
    calls,        \* tool executions in flight in the dispatcher
    buffered,     \* per session id header: POST requests between their
                  \* 'request' and 'end' event
    alive,        \* the process has not been terminated
    last          \* what the most recent task did

vars == << options, transports, nextT, nextSid, sessionId, streams,
           ended, srvTransport, calls, buffered, alive, last >>

VARIABLES
    inbox,     \* the requests the client has written and the dispatcher has not read
    arrived,   \* number of requests the dispatcher has read
    running,   \* tool executions the call-tool handler is awaiting
    reply,     \* what the dispatcher did last: the response it sent, if any
    coerced,   \* a coercion schema, a value given to it, and what parse made of it
    main       \* the process: its environment, how far main() has come, what it did

dvars == << inbox, arrived, running, reply, coerced, main >>

allVars == << vars, dvars >>

----------------------------------------------------------------------------
(* Pure parts of the handler *)

\* allowedHosts of the transport options
allowedHosts(opts) ==
    { Host(opts.host, NoPort), Host("localhost", NoPort), Host("127.0.0.1", NoPort),
      Host(opts.host, opts.port), Host("localhost", opts.port),
      Host("127.0.0.1", opts.port) }

\* a guard that lets every Host header pass
AcceptsAnyHost(opts, host) == TRUE

\* enableDnsRebindingProtection: true -- the transport answers 403 to every
\* request whose Host header is not in allowedHosts
HostAccepted(opts, host) == host \in allowedHosts(opts)

\* transports.has(sessionId)
Has(tbl, sid) == sid \in DOMAIN tbl

\* a retrieval that comes after the entry was removed
RetrievesAfterRemoval(tbl, sid) == NoT

\* transports.get(sessionId): undefined when absent
Get(tbl, sid) == IF sid \in DOMAIN tbl THEN tbl[sid] ELSE NoT

\* a handler that never finds the session of a POST
NeverReuses(tbl, sid) == FALSE

\* POST: sessionId && transports.has(sessionId)
ReuseExisting(tbl, sid) == sid # NoSid /\ Has(tbl, sid)

\* POST: !sessionId && parsedBody.method === 'initialize'
IsNewInitialization(sid, body) == sid = NoSid /\ body = "initialize"

\* POST: evaluating the two conditions throws (the second operand is only
\* evaluated when the first condition is false and sessionId is falsy)
RoutingThrows(tbl, sid, body) ==
    ~ReuseExisting(tbl, sid) /\ sid = NoSid /\ body = "null"

\* a check that only looks for the header
OnlyMissing(tbl, sid) == sid = NoSid

\* GET, DELETE: !sessionId || !transports.has(sessionId)
InvalidSession(tbl, sid) == sid = NoSid \/ ~Has(tbl, sid)

\* an initialization callback that stores nothing
ForgetsSession(tbl, sid, t) == tbl

\* onsessioninitialized: transports.set(sessionId, transport)
OnSessionInitialized(tbl, sid, t) ==
    [s \in (DOMAIN tbl) \cup {sid} |-> IF s = sid THEN t ELSE tbl[s]]

\* a close callback that leaves the entry in the table
KeepsEntry(tbl, sid) == tbl

\* a close callback that empties the table
ClearsAll(tbl, sid) == [s \in {} |-> NoT]

\* transport.onclose: if (transport.sessionId) transports.delete(transport.sessionId)
OnClose(tbl, sid) ==
    IF sid # NoSid THEN [s \in (DOMAIN tbl) \ {sid} |-> tbl[s]] ELSE tbl

\* url.pathname === '/' || url.pathname === '/mcp'
RecognisedPath(url) == url = "/" \/ url = "/mcp"

\* all the handler reads of the URL: whether it is one of the two paths
Route(url) == IF RecognisedPath(url) THEN "mcp" ELSE "other"

\* a handler that sets no header
NoCorsHeaders(res) == res

\* the three res.setHeader calls
SetCorsHeaders(res) == [res EXCEPT !.cors = TRUE]

----------------------------------------------------------------------------
(* The record of a task *)

Quiet ==
    [ ev |-> "none", method |-> "", url |-> "", sid |-> NoSid, body |-> "",
      host |-> [name |-> "", port |-> 0], rpc |-> NoRpc,
      status |-> NoStatus, text |-> "", code |-> 0, cors |-> FALSE,
      stored |-> NoT, invoked |-> NoT, created |-> NoT, bound |-> NoT,
      newSid |-> NoSid, entry |-> FALSE, was |-> FALSE,
      from |-> NoT, on |-> NoT, threw |-> FALSE, writes |-> 0, late |-> FALSE ]

\* a fresh ServerResponse for request r
Request(m, u, s, b, h, k) ==
    [ Quiet EXCEPT !.ev = "http", !.method = m, !.url = u, !.sid = s,
                   !.body = b, !.host = h, !.rpc = k ]

\* res.writeHead(status, ...); res.end(text)
Respond(res, status, text) ==
    [res EXCEPT !.status = status, !.text = text, !.writes = @ + 1]

\* res.end(JSON.stringify({jsonrpc, error: {code, message}, id: null}))
RespondRpcError(res, status, code, text) ==
    [res EXCEPT !.status = status, !.text = text, !.code = code, !.writes = @ + 1]

----------------------------------------------------------------------------
InitHttp ==
    /\ options \in [host : ConfigHosts, port : ConfigPorts]
    /\ transports = [s \in {} |-> NoT]
    /\ nextT = 0
    /\ nextSid = 0
    /\ sessionId = [t \in TransportIds |-> NoSid]
    /\ streams = [t \in TransportIds |-> {}]
    /\ ended = [t \in TransportIds |-> "live"]
    /\ srvTransport = NoT
    /\ calls = {}
    /\ buffered = [s \in Sids |-> 0]
    /\ alive = TRUE
    /\ last = Quiet

\* a handler that empties the session table when it answers by itself
DropsTheTable ==
    /\ transports' = [s \in {} |-> NoT]
    /\ UNCHANGED << nextT, nextSid, sessionId, streams, ended, srvTransport, calls >>

\* the parts of the state only a transport or the dispatcher changes
TransportsUnchanged ==
    UNCHANGED << transports, nextT, nextSid, sessionId, streams,
                 ended, srvTransport, calls >>

----------------------------------------------------------------------------
(* The 'request' listener: requests that reach no session *)

\* if (!req.url) { 400 'Bad Request'; return } -- runs before the CORS
\* headers are set
NoUrl ==
    /\ alive
    /\ last' = Respond(Request("", "none", NoSid, "", Unread, NoRpc),
                       400, "Bad Request")
    /\ TransportsUnchanged
    /\ UNCHANGED << dvars, options, buffered, alive >>

\* new URL(req.url, `http://${req.headers.host}`) throws inside the async
\* listener.  Nothing catches it: the listener's promise rejects.  An
\* unhandled rejection terminates the process or is only reported,
\* depending on the runtime's unhandled-rejections mode.
BadUrl ==
    /\ alive
    /\ last' = [Request("", "bad", NoSid, "", Unread, NoRpc)
                  EXCEPT !.threw = TRUE]
    /\ alive' \in BOOLEAN
    /\ TransportsUnchanged
    /\ UNCHANGED << dvars, options, buffered >>

\* if (req.method === 'OPTIONS') { 200; return } -- whatever the path
Options(u) ==
    /\ alive
    /\ last' = Respond(SetCorsHeaders(
                   Request("OPTIONS", Route(u), NoSid, "", Unread, NoRpc)), 200, "")
    /\ TransportsUnchanged
    /\ UNCHANGED << dvars, options, buffered, alive >>

\* a handler that looks at the method before it looks at the path
MethodBeforePath(m, u) ==
    /\ alive
    /\ m # "OPTIONS"
    /\ ~RecognisedPath(u)
    /\ last' = IF m \in {"POST", "GET", "DELETE"}
                 THEN Respond(SetCorsHeaders(
                          Request(m, Route(u), NoSid, "", Unread, NoRpc)), 404, "Not Found")
                 ELSE Respond(SetCorsHeaders(
                          Request(m, Route(u), NoSid, "", Unread, NoRpc)), 405,
                          "Method Not Allowed")
    /\ TransportsUnchanged
    /\ UNCHANGED << dvars, options, buffered, alive >>

\* a path other than '/' and '/mcp'
NotFound(m, u) ==
    /\ alive
    /\ m # "OPTIONS"
    /\ ~RecognisedPath(u)
    /\ last' = Respond(SetCorsHeaders(
                   Request(m, Route(u), NoSid, "", Unread, NoRpc)), 404, "Not Found")
    /\ TransportsUnchanged
    /\ UNCHANGED << dvars, options, buffered, alive >>

\* a handler without the 405 branch: the request falls through to the 404
FallsThroughToNotFound(m, u) ==
    /\ alive
    /\ m \notin {"OPTIONS", "POST", "GET", "DELETE"}
    /\ RecognisedPath(u)
    /\ last' = Respond(SetCorsHeaders(
                   Request(m, Route(u), NoSid, "", Unread, NoRpc)), 404, "Not Found")
    /\ TransportsUnchanged
    /\ UNCHANGED << dvars, options, buffered, alive >>

\* a method other than OPTIONS, POST, GET, DELETE on a recognised path
MethodNotAllowed(m, u) ==
    /\ alive
    /\ m \notin {"OPTIONS", "POST", "GET", "DELETE"}
    /\ RecognisedPath(u)
    /\ last' = Respond(SetCorsHeaders(
                   Request(m, Route(u), NoSid, "", Unread, NoRpc)), 405,
                   "Method Not Allowed")
    /\ TransportsUnchanged
    /\ UNCHANGED << dvars, options, buffered, alive >>

----------------------------------------------------------------------------
(* The transport (StreamableHTTPServerTransport) and the dispatcher (Server) *)

\* transport.close(): the response streams end, then onclose runs -- the
\* handler's onclose first, then the dispatcher's own, which forgets its
\* transport (server.connect wraps transport.onclose this way).
Closes(t, how) ==
    /\ streams' = [streams EXCEPT ![t] = {}]
    /\ ended' = [ended EXCEPT ![t] = IF @ = "deleted" THEN @ ELSE how]
    /\ transports' = OnClose(transports, sessionId[t])
    /\ srvTransport' = NoT

\* how transport.handleRequest of a POST ends: it resolves ("none"), it
\* rejects before anything is written ("early"), or it rejects after the
\* transport has started the response ("late")
Faults == {"none", "early", "late"}

\* a catch block that answers without looking at res.headersSent
AlwaysAnswers(res) ==
    RespondRpcError([res EXCEPT !.threw = TRUE], 500, -32603, "Internal server error")

\* the catch block of the 'end' listener: the error is logged; the 500
\* envelope is written only if (!res.headersSent)
InternalError(res) ==
    IF res.status # NoStatus
      THEN [res EXCEPT !.threw = TRUE]
      ELSE RespondRpcError([res EXCEPT !.threw = TRUE], 500, -32603,
                           "Internal server error")

\* what the 'end' listener leaves of a response r the transport has written:
\* r itself, or what the catch block makes of it when handleRequest rejects
\* afterwards
Handled(late, r) == IF late THEN InternalError([r EXCEPT !.late = TRUE]) ELSE r

\* the JSON-RPC error a transport answers a request with by itself
Rejects(res, t, status, code, text, late) ==
    last' = Handled(late, RespondRpcError([res EXCEPT !.invoked = t], status, code, text))

\* transport.handleRequest(req, res, parsedBody) of a POST, with `srv` the
\* dispatcher's transport when the message reaches the dispatcher
HandlePost(t, res, srv, late) ==
    IF ~HostAccepted(options, res.host) THEN
        /\ Rejects(res, t, 403, -32000, "Invalid Host header", late)
        /\ UNCHANGED << transports, nextSid, sessionId, streams, calls >>
    ELSE IF res.body = "null" THEN
        /\ Rejects(res, t, 400, -32700, "Parse error", late)
        /\ UNCHANGED << transports, nextSid, sessionId, streams, calls >>
    ELSE IF res.body = "initialize" /\ sessionId[t] # NoSid THEN
        /\ Rejects(res, t, 400, -32600, "Invalid Request: Server already initialized",
                   late)
        /\ UNCHANGED << transports, nextSid, sessionId, streams, calls >>
    ELSE IF res.body = "initialize" THEN
        \* sessionIdGenerator, then onsessioninitialized, then the message
        \* goes to the dispatcher, whose initialize handler answers at once
        LET sid == nextSid + 1
            tbl == OnSessionInitialized(transports, sid, t)
        IN  /\ nextSid' = sid
            /\ sessionId' = [sessionId EXCEPT ![t] = sid]
            /\ transports' = tbl
            /\ last' = Handled(late,
                           Respond([res EXCEPT !.invoked = t, !.newSid = sid,
                                               !.entry = (Get(tbl, sid) = t),
                                               !.from = t, !.on = srv],
                                   200, "initialize result"))
            /\ UNCHANGED << streams, calls >>
    ELSE IF res.body = "notification" THEN
        \* nothing to answer: 202 Accepted, the dispatcher takes the message
        /\ last' = Handled(late, Respond([res EXCEPT !.invoked = t], 202, ""))
        /\ UNCHANGED << transports, nextSid, sessionId, streams, calls >>
    ELSE
        \* a request: its response stream opens (the 200 status line is
        \* written), the dispatcher takes the message and captures its
        \* current transport for the response
        /\ streams' = [streams EXCEPT ![t] = @ \cup {res.rpc}]
        /\ calls' = calls \cup {[from |-> t, via |-> srv, id |-> res.rpc]}
        /\ last' = Handled(late, Respond([res EXCEPT !.invoked = t], 200, "stream open"))
        /\ UNCHANGED << transports, nextSid, sessionId >>

RECURSIVE Count(_, _)
Count(f, S) ==
    IF S = {} THEN 0
    ELSE LET x == CHOOSE y \in S : TRUE IN f[x] + Count(f, S \ {x})

\* POST requests whose 'end' event is still to come
Buffering == Count(buffered, Sids)

\* a client does not send a request id that is still in flight in its session
IdInFlight(t, k) == k \in streams[t] \/ \E c \in calls : c.from = t /\ c.id = k

----------------------------------------------------------------------------
(* POST *)

\* the else branch: 400 with code -32000
NoValidSession(res) ==
    RespondRpcError(res, 400, -32000, "Bad Request: No valid session ID provided")

\* the 'request' event of a POST on a recognised path: the session id header
\* is read, the CORS headers are set, the body starts to be buffered
PostReceive(u, s) ==
    /\ alive
    /\ RecognisedPath(u)
    /\ Buffering < MaxBuffered
    /\ buffered' = [buffered EXCEPT ![s] = @ + 1]
    /\ last' = [Quiet EXCEPT !.ev = "recv"]
    /\ TransportsUnchanged
    /\ UNCHANGED << dvars, options, alive >>

\* the 'end' event of a POST that carried session id header s: the buffered
\* body b is parsed (k is the JSON-RPC id of a request in it), and h is the
\* Host header the transport finds in req; `fault` says how
\* transport.handleRequest ends
PostEnd(s, b, k, h, fault) ==
    /\ alive
    /\ buffered[s] > 0
    /\ buffered' = [buffered EXCEPT ![s] = @ - 1]
    /\ (b = "tools/call") = (k # NoRpc)
    /\ LET res == [SetCorsHeaders(Request("POST", "mcp", s, b, Unread, k))
                     EXCEPT !.stored = Get(transports, s)]
       IN  IF b = "invalid" \/ RoutingThrows(transports, s, b) THEN
               /\ h = Unread /\ fault = "none"
               /\ last' = InternalError(res)
               /\ TransportsUnchanged
           ELSE IF ReuseExisting(transports, s) THEN
               LET t == Get(transports, s) IN
               /\ b = "tools/call" => ~IdInFlight(t, k)
               /\ IF t = NoT \/ fault = "early"
                    THEN /\ h = Unread
                         /\ last' = InternalError([res EXCEPT !.invoked = t])
                         /\ UNCHANGED << transports, nextSid, sessionId, streams, calls >>
                    ELSE /\ h # Unread
                         /\ HandlePost(t, [res EXCEPT !.host = h], srvTransport, fault = "late")
               /\ UNCHANGED << nextT, ended, srvTransport >>
           ELSE IF IsNewInitialization(s, b) THEN
               \* new StreamableHTTPServerTransport(...); server.connect(transport)
               LET t == nextT + 1
                   made == [res EXCEPT !.created = t, !.bound = t]
               IN
               /\ nextT < MaxTransports
               /\ nextT' = t
               /\ srvTransport' = t
               /\ IF fault = "early"
                    THEN /\ h = Unread
                         /\ last' = InternalError([made EXCEPT !.invoked = t])
                         /\ UNCHANGED << transports, nextSid, sessionId, streams, calls >>
                    ELSE /\ h # Unread
                         /\ HandlePost(t, [made EXCEPT !.host = h], t, fault = "late")
               /\ UNCHANGED ended
           ELSE
               /\ h = Unread /\ fault = "none"
               /\ last' = NoValidSession(res)
               /\ TransportsUnchanged
    /\ UNCHANGED << dvars, options, alive >>

----------------------------------------------------------------------------
(* GET and DELETE *)

\* res.writeHead(400); res.end('Invalid or missing session ID')
InvalidOrMissing(res) == Respond(res, 400, "Invalid or missing session ID")

\* res.writeHead(500); res.end('Transport not found')
TransportNotFound(res) == Respond(res, 500, "Transport not found")

\* await transport.handleRequest(req, res) rejects: the GET and DELETE
\* branches have no try/catch, the rejection leaves the listener
Escapes(res, t) ==
    /\ last' = [res EXCEPT !.invoked = t, !.threw = TRUE]
    /\ alive' \in BOOLEAN

\* the session ids a DELETE has terminated
Deleted == {sessionId[t] : t \in {x \in TransportIds : ended[x] = "deleted"}}

\* what the handler has read of a GET or DELETE before it reaches a transport
Lookup(m, u, s) ==
    [SetCorsHeaders(Request(m, Route(u), s, "", Unread, NoRpc))
       EXCEPT !.stored = Get(transports, s), !.was = (s \in Deleted)]

\* GET with a session id that is not in the table, or none
GetInvalid(u, s) ==
    /\ alive
    /\ RecognisedPath(u)
    /\ InvalidSession(transports, s)
    /\ last' = InvalidOrMissing(Lookup("GET", u, s))
    /\ TransportsUnchanged
    /\ UNCHANGED << dvars, options, buffered, alive >>

\* GET with a session id of the table: await transport.handleRequest(req, res)
GetRequest(u, s, h, fault) ==
    /\ alive
    /\ RecognisedPath(u)
    /\ ~InvalidSession(transports, s)
    /\ LET res == Lookup("GET", u, s)
           t == Get(transports, s)
       IN  IF t = NoT THEN
               /\ last' = TransportNotFound(res)
               /\ UNCHANGED alive
           ELSE IF fault THEN
               Escapes(res, t)
           ELSE IF ~HostAccepted(options, h) THEN
               /\ Rejects([res EXCEPT !.host = h], t, 403, -32000, "Invalid Host header", FALSE)
               /\ UNCHANGED alive
           ELSE
               \* the standalone stream opens: the 200 status line is written
               /\ last' = Respond([res EXCEPT !.host = h, !.invoked = t], 200, "stream open")
               /\ UNCHANGED alive
    /\ TransportsUnchanged
    /\ UNCHANGED << dvars, options, buffered >>

\* DELETE with a session id that is not in the table, or none
DeleteInvalid(u, s) ==
    /\ alive
    /\ RecognisedPath(u)
    /\ InvalidSession(transports, s)
    /\ last' = InvalidOrMissing(Lookup("DELETE", u, s))
    /\ TransportsUnchanged
    /\ UNCHANGED << dvars, options, buffered, alive >>

\* DELETE with a session id of the table: await transport.handleRequest(req, res)
DeleteRequest(u, s, h, fault) ==
    /\ alive
    /\ RecognisedPath(u)
    /\ ~InvalidSession(transports, s)
    /\ LET res == Lookup("DELETE", u, s)
           t == Get(transports, s)
       IN  IF t = NoT THEN
               /\ last' = TransportNotFound(res)
               /\ UNCHANGED << transports, streams, ended, srvTransport, alive >>
           ELSE IF fault THEN
               /\ Escapes(res, t)
               /\ UNCHANGED << transports, streams, ended, srvTransport >>
           ELSE IF ~HostAccepted(options, h) THEN
               /\ Rejects([res EXCEPT !.host = h], t, 403, -32000, "Invalid Host header", FALSE)
               /\ UNCHANGED << transports, streams, ended, srvTransport, alive >>
           ELSE
               \* the transport closes itself, then answers 200
               /\ Closes(t, "deleted")
               /\ last' = Respond([res EXCEPT !.host = h, !.invoked = t], 200, "")
               /\ UNCHANGED alive
    /\ UNCHANGED << dvars, options, nextT, nextSid, sessionId, calls, buffered >>

----------------------------------------------------------------------------
(* Events that are not requests *)

\* a transport signals closure (transport.onclose is called)
TransportClose(t) ==
    /\ alive
    /\ t \in 1..nextT
    /\ Closes(t, "closed")
    /\ last' = [Quiet EXCEPT !.ev = "close", !.on = t, !.sid = sessionId[t]]
    /\ UNCHANGED << dvars, options, nextT, nextSid, sessionId, calls, buffered, alive >>

\* a tool's execute settles: the call-tool handler returns (or throws) and
\* the dispatcher sends the response through the transport it captured when
\* the request arrived.  transport.send writes it on the stream that
\* transport holds for the request id, and throws (the dispatcher reports
\* the error) when it holds none.
ToolComplete(c) ==
    /\ alive
    /\ c \in calls
    /\ calls' = calls \ {c}
    /\ IF c.via # NoT /\ c.id \in streams[c.via]
         THEN /\ streams' = [streams EXCEPT ![c.via] = @ \ {c.id}]
              /\ last' = [Quiet EXCEPT !.ev = "rpc", !.from = c.from, !.on = c.via,
                                       !.rpc = c.id, !.status = 200,
                                       !.text = "tool result", !.cors = TRUE]
         ELSE /\ UNCHANGED streams
              /\ last' = [Quiet EXCEPT !.ev = "rpc", !.from = c.from, !.on = NoT,
                                       !.rpc = c.id]
    /\ UNCHANGED << dvars, options, transports, nextT, nextSid, sessionId,
                    ended, srvTransport, buffered, alive >>

----------------------------------------------------------------------------
(* Input coercion (utils/validation.ts) *)

\* longest string argument of the exploration
MaxLen == 2

\* the characters of the string arguments
Chars == {"0", "1", "7", " ", "-", "a"}
Digits == <<"0", "1", "2", "3", "4", "5", "6", "7", "8", "9">>

RECURSIVE StringsUpTo(_)
StringsUpTo(n) ==
    IF n = 0 THEN { << >> }
    ELSE LET shorter == StringsUpTo(n - 1)
         IN  shorter \cup { Append(w, c) : w \in {x \in shorter : Len(x) = n - 1},
                                           c \in Chars }

\* JavaScript values: strings are sequences of characters
Num(n) == [t |-> "number", v |-> n]
Str(w) == [t |-> "string", v |-> w]
Bool(b) == [t |-> "boolean", v |-> b]
Undefined == [t |-> "undefined", v |-> << >>]
NaN == [t |-> "nan", v |-> << >>]

IsDigit(c) == \E i \in 1..Len(Digits) : Digits[i] = c
DigitValue(c) == (CHOOSE i \in 1..Len(Digits) : Digits[i] = c) - 1

\* the string without its leading and trailing white space
RECURSIVE TrimLeft(_)
TrimLeft(w) == IF w # << >> /\ Head(w) = " " THEN TrimLeft(Tail(w)) ELSE w
RECURSIVE TrimRight(_)
TrimRight(w) ==
    IF w # << >> /\ w[Len(w)] = " " THEN TrimRight(SubSeq(w, 1, Len(w) - 1)) ELSE w
Trim(w) == TrimRight(TrimLeft(w))

\* the value of a sequence of decimal digits
RECURSIVE DecimalValue(_)
DecimalValue(w) ==
    IF w = << >> THEN 0
    ELSE 10 * DecimalValue(SubSeq(w, 1, Len(w) - 1)) + DigitValue(w[Len(w)])

AllDigits(w) == w # << >> /\ \A i \in 1..Len(w) : IsDigit(w[i])

\* Number(val) of a string: white space is trimmed, the empty string is 0, an
\* optional sign and decimal digits are a number, anything else is NaN
Number(w) ==
    LET x == Trim(w)
    IN  IF x = << >> THEN Num(0)
        ELSE IF AllDigits(x) THEN Num(DecimalValue(x))
        ELSE IF Head(x) = "-" /\ AllDigits(Tail(x)) THEN Num(0 - DecimalValue(Tail(x)))
        ELSE NaN

\* outcomes of schema.parse(value)
Parsed(x) == [kind |-> "ok", value |-> x, message |-> "", literal |-> << >>]
\* a ZodError with one issue
Issue(msg) == [kind |-> "zod", value |-> Undefined, message |-> msg, literal |-> << >>]
\* throw new Error(`${msg}: "${val}"`) inside a transform: zod does not catch it
Thrown(msg, w) == [kind |-> "error", value |-> Undefined, message |-> msg, literal |-> w]

\* requiredNumber: z.union([z.number(), z.string().transform(...)])
requiredNumber(x) ==
    IF x.t = "number" THEN Parsed(x)
    ELSE IF x.t = "string"
      THEN (IF Number(x.v).t = "nan" THEN Thrown("Invalid number", x.v)
            ELSE Parsed(Number(x.v)))
    ELSE Issue("Invalid input")

\* the union of optionalNumber without its .optional()
WithoutOptional(x) ==
    IF x.t = "string" /\ x.v = << >> THEN Parsed(Undefined) ELSE requiredNumber(x)

\* optionalNumber: the same union, with '' mapped to undefined, .optional()
optionalNumber(x) ==
    IF x.t = "undefined" THEN Parsed(Undefined)
    ELSE IF x.t = "number" THEN Parsed(x)
    ELSE IF x.t = "string"
      THEN (IF x.v = << >> THEN Parsed(Undefined)
            ELSE IF Number(x.v).t = "nan" THEN Thrown("Invalid number", x.v)
            ELSE Parsed(Number(x.v)))
    ELSE Issue("Invalid input")

\* a boolean coercion by truthiness: every string but '' is true
CoercesByTruthiness(x) ==
    IF x.t = "boolean" THEN Parsed(x)
    ELSE IF x.t = "string" THEN Parsed(Bool(x.v # << >>))
    ELSE Issue("Invalid input")

\* requiredBoolean: z.union([z.boolean(), z.string().transform(...)])
requiredBoolean(x) ==
    IF x.t = "boolean" THEN Parsed(x)
    ELSE IF x.t = "string"
      THEN (IF x.v = <<"t", "r", "u", "e">> \/ x.v = <<"1">> THEN Parsed(Bool(TRUE))
            ELSE IF x.v = <<"f", "a", "l", "s", "e">> \/ x.v = <<"0">>
              THEN Parsed(Bool(FALSE))
            ELSE Thrown("Invalid boolean", x.v))
    ELSE Issue("Invalid input")

\* optionalBoolean: the same union, with '' mapped to undefined, .optional()
optionalBoolean(x) ==
    IF x.t = "undefined" THEN Parsed(Undefined)
    ELSE IF x.t = "string" /\ x.v = << >> THEN Parsed(Undefined)
    ELSE requiredBoolean(x)

----------------------------------------------------------------------------
(* Results and their serialisation: JSON.stringify(result, null, 2) (index.ts) *)

\* JavaScript values beyond the scalars: null, an object as the sequence of
\* its properties in insertion order, and an array of n entities as the
\* upstream API returns it (response.json() made it, so it is JSON)
Null == [t |-> "null", v |-> << >>]
Obj(props) == [t |-> "object", v |-> props]
Entities(n) == [t |-> "array", v |-> n]

\* value.key of an object, undefined when it has no such property
RECURSIVE Field(_, _)
Field(x, key) ==
    IF x.t # "object" \/ x.v = << >> THEN Undefined
    ELSE IF Head(x.v)[1] = key THEN Head(x.v)[2]
    ELSE Field(Obj(Tail(x.v)), key)

\* the tokens of a JSON text
Tok(kind, x) == [k |-> kind, x |-> x]
Punct(c) == Tok(c, Undefined)
\* a line break followed by 2 * depth spaces
Indent(depth) == Tok("indent", Num(depth))

\* what JSON.stringify does not write as itself
Unwritable(x) == x.t = "undefined"

\* JSON.stringify(x, null, 2) of a value that has a text, at nesting depth d:
\* NaN becomes null; a property whose value is undefined is left out; the
\* properties of a non-empty object stand on lines of their own
RECURSIVE Pretty(_, _)
RECURSIVE PrettyProps(_, _, _)
Pretty(x, d) ==
    CASE x.t = "nan" -> << Punct("null") >>
      [] x.t = "null" -> << Punct("null") >>
      [] x.t \in {"number", "string", "boolean", "array"} -> << Tok(x.t, x) >>
      [] x.t = "object" ->
            LET inner == PrettyProps(x.v, d + 1, TRUE)
            IN  IF inner = << >> THEN << Punct("{"), Punct("}") >>
                ELSE << Punct("{") >> \o inner \o << Indent(d), Punct("}") >>
PrettyProps(props, d, first) ==
    IF props = << >> THEN << >>
    ELSE IF Unwritable(Head(props)[2]) THEN PrettyProps(Tail(props), d, first)
    ELSE (IF first THEN << >> ELSE << Punct(",") >>)
           \o << Indent(d), Tok("key", [t |-> "key", v |-> Head(props)[1]]), Punct(":") >>
           \o Pretty(Head(props)[2], d)
           \o PrettyProps(Tail(props), d, FALSE)

\* JSON.stringify(result, null, 2): undefined for undefined, else the text
NoText == << Tok("undefined", Undefined) >>
Stringify(x) == IF Unwritable(x) THEN NoText ELSE Pretty(x, 0)

\* JSON.parse(text): white space is skipped; the value and what follows it
Skip(toks) == IF toks # << >> /\ Head(toks).k = "indent" THEN Tail(toks) ELSE toks
SyntaxError == [t |-> "SyntaxError", v |-> << >>]
RECURSIVE ParseValue(_)
RECURSIVE ParseProps(_, _)
ParseValue(text) ==
    LET toks == Skip(text)
    IN  IF toks = << >> THEN [value |-> SyntaxError, rest |-> << >>]
        ELSE LET tok == Head(toks)
             IN  CASE tok.k \in {"number", "string", "boolean", "array"} ->
                        [value |-> tok.x, rest |-> Tail(toks)]
                   [] tok.k = "null" -> [value |-> Null, rest |-> Tail(toks)]
                   [] tok.k = "{" -> ParseProps(Tail(toks), << >>)
                   [] OTHER -> [value |-> SyntaxError, rest |-> << >>]
ParseProps(text, props) ==
    LET toks == Skip(text)
    IN  IF toks = << >> THEN [value |-> SyntaxError, rest |-> << >>]
        ELSE IF Head(toks).k = "}" THEN [value |-> Obj(props), rest |-> Tail(toks)]
        ELSE IF Head(toks).k = "," THEN ParseProps(Tail(toks), props)
        ELSE IF Head(toks).k = "key" /\ Len(toks) >= 2 /\ toks[2].k = ":"
          THEN LET member == ParseValue(SubSeq(toks, 3, Len(toks)))
               IN  IF member.value.t = "SyntaxError" THEN member
                   ELSE ParseProps(member.rest,
                                   Append(props, << Head(toks).x.v, member.value >>))
        ELSE [value |-> SyntaxError, rest |-> << >>]
JsonParse(text) ==
    LET parsed == ParseValue(text)
    IN  IF Skip(parsed.rest) = << >> THEN parsed.value ELSE SyntaxError

----------------------------------------------------------------------------
(* The input contracts of the tools (tools/*.ts): the fields of each z.object
   in declaration order, each with the schema of its value *)

listTimeEntriesSchema ==
    << <<"user_id", "optionalNumber">>,
       <<"customer_id", "optionalNumber">>,
       <<"project_id", "optionalNumber">>,
       <<"service_id", "optionalNumber">>,
       <<"from", "string?">>,
       <<"to", "string?">>,
       <<"billable", "optionalBoolean">>,
       <<"locked", "optionalBoolean">>,
       <<"limit", "optionalNumber">>,
       <<"page", "optionalNumber">>,
       <<"group_by", "enum8?">> >>

createTimeEntrySchema ==
    << <<"date_at", "string?">>,
       <<"minutes", "optionalNumber">>,
       <<"note", "string?">>,
       <<"user_id", "optionalNumber">>,
       <<"project_id", "optionalNumber">>,
       <<"service_id", "optionalNumber">>,
       <<"locked", "optionalBoolean">> >>

updateTimeEntrySchema ==
    << <<"id", "requiredNumber?">>,
       <<"time_entry_id", "requiredNumber?">>,
       <<"date_at", "string?">>,
       <<"minutes", "optionalNumber">>,
       <<"note", "string?">>,
       <<"user_id", "optionalNumber">>,
       <<"project_id", "optionalNumber">>,
       <<"service_id", "optionalNumber">>,
       <<"locked", "optionalBoolean">> >>

getDailyTimeEntriesSchema ==
    << <<"at", "string?">> >>

getTimeEntrySummarySchema ==
    << <<"group_by", "enum4">>,
       <<"from", "string?">>,
       <<"to", "string?">>,
       <<"user_id", "optionalNumber">>,
       <<"customer_id", "optionalNumber">>,
       <<"project_id", "optionalNumber">>,
       <<"service_id", "optionalNumber">> >>

getTimeEntrySchema ==
    << <<"id", "requiredNumber">> >>

deleteTimeEntrySchema ==
    << <<"id", "requiredNumber">> >>

listCustomersSchema ==
    << <<"name", "string?">>,
       <<"limit", "optionalNumber">>,
       <<"page", "optionalNumber">>,
       <<"archived", "optionalBoolean">> >>

createCustomerSchema ==
    << <<"name", "string">>,
       <<"note", "string?">>,
       <<"archived", "optionalBoolean">>,
       <<"hourly_rate", "optionalNumber">>,
       <<"hourly_rates_per_service", "array?">> >>

updateCustomerSchema ==
    << <<"id", "requiredNumber">>,
       <<"name", "string?">>,
       <<"note", "string?">>,
       <<"archived", "optionalBoolean">>,
       <<"hourly_rate", "optionalNumber">>,
       <<"hourly_rates_per_service", "array?">> >>

getCustomerSchema ==
    << <<"id", "requiredNumber">> >>

deleteCustomerSchema ==
    << <<"id", "requiredNumber">> >>

listProjectsSchema ==
    << <<"name", "string?">>,
       <<"customer_id", "optionalNumber">>,
       <<"limit", "optionalNumber">>,
       <<"page", "optionalNumber">>,
       <<"archived", "optionalBoolean">> >>

createProjectSchema ==
    << <<"name", "string">>,
       <<"note", "string?">>,
       <<"customer_id", "optionalNumber">>,
       <<"budget", "optionalNumber">>,
       <<"budget_type", "string?">>,
       <<"archived", "optionalBoolean">>,
       <<"hourly_rate", "optionalNumber">>,
       <<"hourly_rates_per_service", "array?">> >>

updateProjectSchema ==
    << <<"id", "requiredNumber">>,
       <<"name", "string?">>,
       <<"note", "string?">>,
       <<"customer_id", "optionalNumber">>,
       <<"budget", "optionalNumber">>,
       <<"budget_type", "string?">>,
       <<"archived", "optionalBoolean">>,
       <<"hourly_rate", "optionalNumber">>,
       <<"hourly_rates_per_service", "array?">>,
       <<"update_hourly_rate_on_time_entries", "optionalBoolean">> >>

getProjectSchema ==
    << <<"id", "requiredNumber">> >>

deleteProjectSchema ==
    << <<"id", "requiredNumber">> >>

listServicesSchema ==
    << <<"name", "string?">>,
       <<"limit", "coerce.number?">>,
       <<"page", "coerce.number?">>,
       <<"archived", "coerce.boolean?">> >>

createServiceSchema ==
    << <<"name", "string">>,
       <<"note", "string?">>,
       <<"hourly_rate", "coerce.number?">>,
       <<"billable", "coerce.boolean?">>,
       <<"archived", "coerce.boolean?">> >>

updateServiceSchema ==
    << <<"id", "coerce.number">>,
       <<"name", "string?">>,
       <<"note", "string?">>,
       <<"hourly_rate", "coerce.number?">>,
       <<"billable", "coerce.boolean?">>,
       <<"archived", "coerce.boolean?">>,
       <<"update_hourly_rate_on_time_entries", "coerce.boolean?">> >>

getServiceSchema ==
    << <<"id", "coerce.number">> >>

deleteServiceSchema ==
    << <<"id", "coerce.number">> >>

\* z.object({})
getStopwatchStatusSchema == << >>

startStopwatchSchema ==
    << <<"id", "requiredNumber">> >>

stopStopwatchSchema ==
    << <<"id", "requiredNumber">> >>

quickStartStopwatchSchema ==
    << <<"note", "string?">>,
       <<"project_id", "optionalNumber">>,
       <<"service_id", "optionalNumber">> >>

----------------------------------------------------------------------------
(* The tool descriptors each create...Tools returns, in the order of their
   keys; `refine` says that the contract carries the .refine() that needs
   one of id and time_entry_id *)

createTimeEntriesTools ==
    <<
      [ key |-> "listTimeEntries", name |-> "list_time_entries",
        description |-> "List time entries with filters.",
        inputSchema |-> listTimeEntriesSchema, refine |-> FALSE ],
      [ key |-> "getDailyTimeEntries", name |-> "get_daily_time_entries",
        description |-> "Get time entries for today or a specific date for the current user.",
        inputSchema |-> getDailyTimeEntriesSchema, refine |-> FALSE ],
      [ key |-> "getTimeEntry", name |-> "get_time_entry",
        description |-> "Get a specific time entry by ID",
        inputSchema |-> getTimeEntrySchema, refine |-> FALSE ],
      [ key |-> "createTimeEntry", name |-> "create_time_entry",
        description |-> "Create a new time entry",
        inputSchema |-> createTimeEntrySchema, refine |-> FALSE ],
      [ key |-> "updateTimeEntry", name |-> "update_time_entry",
        description |-> "Update an existing time entry",
        inputSchema |-> updateTimeEntrySchema, refine |-> TRUE ],
      [ key |-> "deleteTimeEntry", name |-> "delete_time_entry",
        description |-> "Delete a time entry",
        inputSchema |-> deleteTimeEntrySchema, refine |-> FALSE ],
      [ key |-> "getTimeEntrySummary", name |-> "get_time_entry_summary",
        description |-> "Get summarized/grouped time entries by customer, project, service, or user.",
        inputSchema |-> getTimeEntrySummarySchema, refine |-> FALSE ]
    >>

createCustomersTools ==
    <<
      [ key |-> "listCustomers", name |-> "list_customers",
        description |-> "List active or archived customers",
        inputSchema |-> listCustomersSchema, refine |-> FALSE ],
      [ key |-> "getCustomer", name |-> "get_customer",
        description |-> "Get a specific customer by ID",
        inputSchema |-> getCustomerSchema, refine |-> FALSE ],
      [ key |-> "createCustomer", name |-> "create_customer",
        description |-> "Create a new customer (requires admin permissions)",
        inputSchema |-> createCustomerSchema, refine |-> FALSE ],
      [ key |-> "updateCustomer", name |-> "update_customer",
        description |-> "Update an existing customer (requires admin permissions)",
        inputSchema |-> updateCustomerSchema, refine |-> FALSE ],
      [ key |-> "deleteCustomer", name |-> "delete_customer",
        description |-> "Delete a customer (requires admin permissions, customer must have no projects)",
        inputSchema |-> deleteCustomerSchema, refine |-> FALSE ]
    >>

createProjectsTools ==
    <<
      [ key |-> "listProjects", name |-> "list_projects",
        description |-> "List active or archived projects",
        inputSchema |-> listProjectsSchema, refine |-> FALSE ],
      [ key |-> "getProject", name |-> "get_project",
        description |-> "Get a specific project by ID",
        inputSchema |-> getProjectSchema, refine |-> FALSE ],
      [ key |-> "createProject", name |-> "create_project",
        description |-> "Create a new project (requires admin permissions)",
        inputSchema |-> createProjectSchema, refine |-> FALSE ],
      [ key |-> "updateProject", name |-> "update_project",
        description |-> "Update an existing project (requires admin permissions)",
        inputSchema |-> updateProjectSchema, refine |-> FALSE ],
      [ key |-> "deleteProject", name |-> "delete_project",
        description |-> "Delete a project (requires admin permissions, project must have no time entries)",
        inputSchema |-> deleteProjectSchema, refine |-> FALSE ]
    >>

createServicesTools ==
    <<
      [ key |-> "listServices", name |-> "list_services",
        description |-> "List active or archived services",
        inputSchema |-> listServicesSchema, refine |-> FALSE ],
      [ key |-> "getService", name |-> "get_service",
        description |-> "Get a specific service by ID",
        inputSchema |-> getServiceSchema, refine |-> FALSE ],
      [ key |-> "createService", name |-> "create_service",
        description |-> "Create a new service (requires admin permissions)",
        inputSchema |-> createServiceSchema, refine |-> FALSE ],
      [ key |-> "updateService", name |-> "update_service",
        description |-> "Update an existing service (requires admin permissions)",
        inputSchema |-> updateServiceSchema, refine |-> FALSE ],
      [ key |-> "deleteService", name |-> "delete_service",
        description |-> "Delete a service (requires admin permissions, service must have no time entries)",
        inputSchema |-> deleteServiceSchema, refine |-> FALSE ]
    >>

createStopwatchTools ==
    <<
      [ key |-> "getStopwatchStatus", name |-> "get_stopwatch_status",
        description |-> "Get the current stopwatch status (running or stopped time entry)",
        inputSchema |-> getStopwatchStatusSchema, refine |-> FALSE ],
      [ key |-> "startStopwatch", name |-> "start_stopwatch",
        description |-> "Start the stopwatch for a time entry",
        inputSchema |-> startStopwatchSchema, refine |-> FALSE ],
      [ key |-> "stopStopwatch", name |-> "stop_stopwatch",
        description |-> "Stop the currently running stopwatch",
        inputSchema |-> stopStopwatchSchema, refine |-> FALSE ],
      [ key |-> "quickStartStopwatch", name |-> "quick_start_stopwatch",
        description |-> "Start stopwatch with a new time entry for today",
        inputSchema |-> quickStartStopwatchSchema, refine |-> FALSE ]
    >>

\* z.enum([...]) of group_by in list_time_entries
Enum8 ==
    { <<"c", "u", "s", "t", "o", "m", "e", "r">>,
      <<"p", "r", "o", "j", "e", "c", "t">>,
      <<"s", "e", "r", "v", "i", "c", "e">>,
      <<"u", "s", "e", "r">>,
      <<"d", "a", "y">>,
      <<"w", "e", "e", "k">>,
      <<"m", "o", "n", "t", "h">>,
      <<"y", "e", "a", "r">> }

\* z.enum([...]) of group_by in get_time_entry_summary
Enum4 ==
    { <<"c", "u", "s", "t", "o", "m", "e", "r">>,
      <<"p", "r", "o", "j", "e", "c", "t">>,
      <<"s", "e", "r", "v", "i", "c", "e">>,
      <<"u", "s", "e", "r">> }

----------------------------------------------------------------------------
(* The dispatcher: setupServer (index.ts) *)

\* fields an argument map of the exploration carries at most
MaxArgs == 1
\* requests the stdio client writes in one run
MaxRequests == 3

\* the argument values of the exploration
ArgValues ==
    { Num(5), Num(0), Str(<<"7">>), Str(<<"a">>), Str(<< >>), Bool(TRUE),
      Str(<<"u", "s", "e", "r">>), Str(<<"f", "a", "l", "s", "e">>) }

\* Boolean(x)
Truthy(x) ==
    CASE x.t = "boolean" -> x.v
      [] x.t = "number" -> x.v # 0
      [] x.t = "string" -> x.v # << >>
      [] OTHER -> FALSE

\* z.coerce.number(): Number(input), then z.number()
CoerceNumber(x) ==
    LET n == CASE x.t = "number" -> x
               [] x.t = "string" -> Number(x.v)
               [] x.t = "boolean" -> Num(IF x.v THEN 1 ELSE 0)
               [] OTHER -> NaN
    IN  IF n.t = "nan" THEN Issue("Expected number, received nan") ELSE Parsed(n)

\* z.string()
ParseString(x) ==
    IF x.t = "string" THEN Parsed(x)
    ELSE IF x.t = "undefined" THEN Issue("Required")
    ELSE Issue("Expected string")

\* z.enum(values)
ParseEnum(values, x) ==
    IF x.t = "string" /\ x.v \in values THEN Parsed(x)
    ELSE IF x.t = "undefined" THEN Issue("Required")
    ELSE Issue("Invalid enum value")

\* schema.optional(): undefined passes, anything else goes to the schema
Optional(x, parsed) == IF x.t = "undefined" THEN Parsed(Undefined) ELSE parsed

\* the value schema of one field, applied to x
ParseField(kind, x) ==
    CASE kind = "requiredNumber" -> requiredNumber(x)
      [] kind = "requiredNumber?" -> Optional(x, requiredNumber(x))
      [] kind = "optionalNumber" -> optionalNumber(x)
      [] kind = "optionalBoolean" -> optionalBoolean(x)
      [] kind = "string" -> ParseString(x)
      [] kind = "string?" -> Optional(x, ParseString(x))
      [] kind = "coerce.number" -> CoerceNumber(x)
      [] kind = "coerce.number?" -> Optional(x, CoerceNumber(x))
      [] kind = "coerce.boolean?" -> Optional(x, Parsed(Bool(Truthy(x))))
      [] kind = "enum4" -> ParseEnum(Enum4, x)
      [] kind = "enum8?" -> Optional(x, ParseEnum(Enum8, x))
      \* z.array(z.object({...})).optional(): the exploration sends no arrays
      [] kind = "array?" -> Optional(x, Issue("Expected array"))

\* args[field], undefined when absent
Arg(args, field) == IF field \in DOMAIN args THEN args[field] ELSE Undefined

FieldNames(schema) == { schema[i][1] : i \in 1..Len(schema) }

\* the messages of the issues of the fields i.., in field order
RECURSIVE Issues(_, _, _)
Issues(schema, args, i) ==
    IF i > Len(schema) THEN << >>
    ELSE LET r == ParseField(schema[i][2], Arg(args, schema[i][1]))
         IN  (IF r.kind = "zod" THEN << r.message >> ELSE << >>)
                \o Issues(schema, args, i + 1)

\* outcomes of tool.inputSchema.parse(args)
Valid(input) == [kind |-> "ok", input |-> input, messages |-> << >>, literal |-> << >>]
ZodError(messages) ==
    [kind |-> "zod", input |-> << >>, messages |-> messages, literal |-> << >>]
PlainError(message, literal) ==
    [kind |-> "error", input |-> << >>, messages |-> << message >>, literal |-> literal]

\* tool.inputSchema.parse(args): the fields are parsed in order; an Error
\* thrown by a transform leaves parse at once, as it is; otherwise the issues
\* of all fields make one ZodError; the refinement runs on a valid object
Validate(tool, args) ==
    LET schema == tool.inputSchema
        result(i) == ParseField(schema[i][2], Arg(args, schema[i][1]))
        throwing == { i \in 1..Len(schema) : result(i).kind = "error" }
        issues == Issues(schema, args, 1)
        input == [f \in FieldNames(schema) |->
                    result(CHOOSE i \in 1..Len(schema) : schema[i][1] = f).value]
    IN  IF throwing # {}
          THEN LET i == CHOOSE j \in throwing : \A k \in throwing : j <= k
               IN  PlainError(result(i).message, result(i).literal)
        ELSE IF issues # << >> THEN ZodError(issues)
        ELSE IF tool.refine /\ ~(Truthy(input["id"]) \/ Truthy(input["time_entry_id"]))
          THEN ZodError(<< "Either 'id' or 'time_entry_id' must be provided" >>)
        ELSE Valid(input)

\* const allTools = {...timeEntriesTools, ...customersTools, ...}: a key that
\* occurs again keeps its place and takes the later descriptor
Spread(tools) ==
    LET first == { i \in 1..Len(tools) : \A j \in 1..(i - 1) : tools[j].key # tools[i].key }
        latest(i) == CHOOSE j \in 1..Len(tools) :
                        /\ tools[j].key = tools[i].key
                        /\ \A k \in 1..Len(tools) : tools[k].key = tools[i].key => k <= j
        RECURSIVE Keep(_)
        Keep(i) == IF i > Len(tools) THEN << >>
                   ELSE (IF i \in first THEN << tools[latest(i)] >> ELSE << >>) \o Keep(i + 1)
    IN  Keep(1)

allTools ==
    Spread(createTimeEntriesTools \o createCustomersTools \o createProjectsTools
             \o createServicesTools \o createStopwatchTools)

\* a table that also resolves a name no tool carries
ResolvesUnknownName ==
    [ n \in { allTools[i].name : i \in 1..Len(allTools) } \cup {"no_such_tool"} |->
        allTools[1] ]

\* toolsByName.set(tool.name, tool) for every value of allTools, in order
toolsByName ==
    [ n \in { allTools[i].name : i \in 1..Len(allTools) } |->
        allTools[CHOOSE i \in 1..Len(allTools) :
                    /\ allTools[i].name = n
                    /\ \A j \in 1..Len(allTools) : allTools[j].name = n => j <= i] ]

\* a listing that names the first tool twice
ListsFirstToolTwice ==
    [ i \in 1..(Len(allTools) + 1) |->
        [name |-> allTools[IF i > Len(allTools) THEN 1 ELSE i].name,
         description |-> allTools[IF i > Len(allTools) THEN 1 ELSE i].description] ]

\* the ListTools handler: one entry per value of allTools
ListToolsResult ==
    [ i \in 1..Len(allTools) |->
        [name |-> allTools[i].name, description |-> allTools[i].description] ]

\* JSON-RPC requests
NoArgs == [f \in {} |-> Undefined]
CallRequest(name, args) == [method |-> "tools/call", name |-> name, args |-> args]
ListRequest == [method |-> "tools/list", name |-> "", args |-> NoArgs]

\* the argument maps over the fields of a contract
ArgMaps(schema) ==
    UNION { [S -> ArgValues] :
              S \in { T \in SUBSET FieldNames(schema) : Cardinality(T) <= MaxArgs } }

\* names the clients call: every registered name and one that is not
CalledNames == (DOMAIN toolsByName) \cup {"no_such_tool"}

\* the requests of the exploration
Requests ==
    {ListRequest}
      \cup { CallRequest("no_such_tool", a) : a \in {NoArgs, [id |-> Num(5)]} }
      \cup UNION { { CallRequest(allTools[i].name, a) : a \in ArgMaps(allTools[i].inputSchema) }
                     : i \in 1..Len(allTools) }
      \cup { CallRequest("list_time_entries", [group_by |-> Str(<<"u", "s", "e", "r">>), limit |-> n])
               : n \in {Num(5), Str(<<"7">>)} }


\* the four exported schemas
CoercionSchemas == {"optionalNumber", "requiredNumber", "optionalBoolean", "requiredBoolean"}

\* schema.parse(x) of an exported schema
Apply(schema, x) ==
    CASE schema = "optionalNumber" -> optionalNumber(x)
      [] schema = "requiredNumber" -> requiredNumber(x)
      [] schema = "optionalBoolean" -> optionalBoolean(x)
      [] schema = "requiredBoolean" -> requiredBoolean(x)

\* the values given to the schemas
CoercionInputs ==
    { Str(w) : w \in StringsUpTo(MaxLen)
                      \cup { <<"t", "r", "u", "e">>, <<"f", "a", "l", "s", "e">> } }
      \cup { Num(0 - 1), Num(0), Num(5), Bool(TRUE), Bool(FALSE), Undefined }

NotParsed == [kind |-> "none", value |-> Undefined, message |-> "", literal |-> << >>]

\* no schema has parsed anything
Idle ==
    [schema |-> "optionalNumber", input |-> Undefined, output |-> NotParsed,
     again |-> NotParsed, times |-> 0]

\* the limit of list_time_entries when the caller gives none
DefaultLimit == 500

\* how the execute of a tool uses the upstream API: the kind of its body, the
\* path it requests (%s is the id), the path of the archived list, and the
\* property of the response or of the result it reads or writes
Uses(kind, path, other, wrap) == [kind |-> kind, path |-> path, other |-> other, wrap |-> wrap]
execute(key) ==
    CASE key = "listTimeEntries" -> Uses("listTimeEntries", "/time_entries.json", "", "entries")
      [] key = "getDailyTimeEntries" -> Uses("daily", "/daily.json", "", "entries")
      [] key = "getTimeEntry" -> Uses("get", "/time_entries/%s.json", "", "time_entry")
      [] key = "createTimeEntry" -> Uses("create", "/time_entries.json", "", "time_entry")
      [] key = "updateTimeEntry" -> Uses("updateTimeEntry", "/time_entries/%s.json", "", "time_entry")
      [] key = "deleteTimeEntry" -> Uses("delete", "/time_entries/%s.json", "", "id")
      [] key = "getTimeEntrySummary" -> Uses("summary", "/time_entries.json", "", "entries")
      [] key = "listCustomers" ->
            Uses("list", "/customers.json", "/customers/archived.json", "customers")
      [] key = "getCustomer" -> Uses("get", "/customers/%s.json", "", "customer")
      [] key = "createCustomer" -> Uses("create", "/customers.json", "", "customer")
      [] key = "updateCustomer" -> Uses("update", "/customers/%s.json", "", "customer")
      [] key = "deleteCustomer" -> Uses("delete", "/customers/%s.json", "", "id")
      [] key = "listProjects" ->
            Uses("list", "/projects.json", "/projects/archived.json", "projects")
      [] key = "getProject" -> Uses("get", "/projects/%s.json", "", "project")
      [] key = "createProject" -> Uses("create", "/projects.json", "", "project")
      [] key = "updateProject" -> Uses("update", "/projects/%s.json", "", "project")
      [] key = "deleteProject" -> Uses("delete", "/projects/%s.json", "", "id")
      [] key = "listServices" ->
            Uses("list", "/services.json", "/services/archived.json", "services")
      [] key = "getService" -> Uses("get", "/services/%s.json", "", "service")
      [] key = "createService" -> Uses("create", "/services.json", "", "service")
      [] key = "updateService" -> Uses("update", "/services/%s.json", "", "service")
      [] key = "deleteService" -> Uses("delete", "/services/%s.json", "", "id")
      [] key = "getStopwatchStatus" -> Uses("status", "/tracker.json", "", "")
      [] key = "startStopwatch" -> Uses("update", "/tracker/%s.json", "", "tracking_time_entry")
      [] key = "stopStopwatch" -> Uses("delete", "/tracker/%s.json", "", "stopped_id")
      [] key = "quickStartStopwatch" ->
            Uses("quickStart", "/time_entries.json", "/tracker/%s.json", "tracking_time_entry")

\* a call of apiClient.get / post / patch / delete: the path with the id and
\* the group_by it is built from, the query parameters and the body
ApiRequest(method, path, id, group, query, body) ==
    [method |-> method, path |-> path, id |-> id, group |-> group,
     query |-> query, body |-> body]

\* const { a, b, ...rest } = input
Without(input, keys) == [f \in (DOMAIN input) \ keys |-> input[f]]

\* the properties the query string gets: request() skips undefined values
Sent(params) == [f \in { g \in DOMAIN params : params[g].t # "undefined" } |-> params[f]]

\* new Date().toISOString().split('T')[0]
Today == Str(<< "today" >>)

\* a limit that ignores the caller's
AlwaysDefaultLimit(input) == Num(DefaultLimit)

\* limit || 500
EffectiveLimit(input) == IF Truthy(input["limit"]) THEN input["limit"] ELSE Num(DefaultLimit)

\* the first upstream call of a tool's execute
FirstRequest(tool, input) ==
    LET e == execute(tool.key)
    IN  CASE e.kind = "list" ->
               ApiRequest("GET", IF Truthy(input["archived"]) THEN e.other ELSE e.path,
                          Undefined, Undefined, Sent(Without(input, {"archived"})), NoArgs)
          [] e.kind = "get" ->
               ApiRequest("GET", e.path, input["id"], Undefined, NoArgs, NoArgs)
          [] e.kind = "create" ->
               ApiRequest("POST", e.path, Undefined, Undefined, NoArgs, input)
          [] e.kind = "update" ->
               ApiRequest("PATCH", e.path, input["id"], Undefined, NoArgs,
                          Without(input, {"id"}))
          [] e.kind = "updateTimeEntry" ->
               ApiRequest("PATCH", e.path,
                          IF Truthy(input["id"]) THEN input["id"] ELSE input["time_entry_id"],
                          Undefined, NoArgs, Without(input, {"id", "time_entry_id"}))
          [] e.kind = "delete" ->
               ApiRequest("DELETE", e.path, input["id"], Undefined, NoArgs, NoArgs)
          [] e.kind = "listTimeEntries" ->
               IF Truthy(input["group_by"])
                 THEN ApiRequest("GET", e.path, Undefined, input["group_by"],
                                 Sent(Without(input, {"group_by", "limit"})), NoArgs)
                 ELSE ApiRequest("GET", e.path, Undefined, Undefined,
                                 Sent([f \in (DOMAIN input) \ {"group_by"} |->
                                         IF f = "limit" THEN EffectiveLimit(input)
                                         ELSE input[f]]), NoArgs)
          [] e.kind = "daily" ->
               ApiRequest("GET", e.path, Undefined, Undefined,
                          IF Truthy(input["at"]) THEN [at |-> input["at"]] ELSE NoArgs, NoArgs)
          [] e.kind = "summary" ->
               ApiRequest("GET", e.path, Undefined, input["group_by"],
                          Sent(Without(input, {"group_by"})), NoArgs)
          [] e.kind = "status" ->
               ApiRequest("GET", e.path, Undefined, Undefined, NoArgs, NoArgs)
          [] e.kind = "quickStart" ->
               ApiRequest("POST", e.path, Undefined, Undefined, NoArgs,
                          [f \in {"date_at", "minutes"} \cup DOMAIN input |->
                              IF f \in DOMAIN input THEN input[f]
                              ELSE IF f = "date_at" THEN Today ELSE Num(0)])

\* what the upstream API answers: a failure (fetch rejects, or a status that
\* is not ok) or a JSON body; 204 No Content becomes {}
Failure == [ok |-> FALSE, body |-> Undefined]
Ok(body) == [ok |-> TRUE, body |-> body]

\* an entity of the upstream API
Entity == Obj(<< <<"id", Num(5)>> >>)

\* another entity, as a create returns it
Created == Obj(<< <<"id", Num(7)>> >>)

\* lengths of the lists the upstream API returns
ListLengths == {0, 5, 7, DefaultLimit}

\* the answers of the exploration to a call of a tool: a failure, {}, the
\* entity in the wrapper the tool reads, lists
Responses(tool) ==
    LET e == execute(tool.key)
    IN  {Failure, Ok(Obj(<< >>)),
         Ok(Obj(<< << IF e.kind = "quickStart" THEN "time_entry" ELSE e.wrap, Entity >> >>)),
         Ok(Obj(<< <<"tracking_time_entry", Entity>> >>))}
          \cup { Ok(Entities(n)) :
                   n \in IF e.kind = "listTimeEntries" THEN ListLengths ELSE {0} }
          \cup (IF e.kind = "quickStart" THEN {Ok(Obj(<< <<"time_entry", Created>> >>))} ELSE {})

\* what an execute does when an upstream call settles: it returns a value, it
\* throws, or it makes its next call
Returns(value) == [does |-> "return", value |-> value, head |-> "", next |-> << >>]
Throws(head) == [does |-> "throw", value |-> Undefined, head |-> head, next |-> << >>]
Calls(request) == [does |-> "call", value |-> Undefined, head |-> "", next |-> << request >>]

\* a tracker started for a fixed entry
StartsFixedEntry(body) == Field(Entity, "id")

\* timeEntry.time_entry.id
CreatedId(body) == Field(Field(body, "time_entry"), "id")

\* entries.length
Length(x) == IF x.t = "array" THEN Num(x.v) ELSE Undefined

\* the execute of a tool after its step-th upstream call was answered
Continue(tool, input, step, response) ==
    LET e == execute(tool.key)
        body == response.body
    IN  IF ~response.ok THEN Throws("API Error")
        ELSE CASE e.kind \in {"list", "daily"} -> Returns(Obj(<< << e.wrap, body >> >>))
               [] e.kind \in {"get", "create", "update", "updateTimeEntry"} ->
                     Returns(Field(body, e.wrap))
               [] e.kind = "delete" ->
                     Returns(Obj(<< <<"success", Bool(TRUE)>>, << e.wrap, input["id"] >> >>))
               [] e.kind = "status" -> Returns(body)
               [] e.kind = "summary" ->
                     Returns(Obj(<< <<"entries", body>>, <<"grouped", Bool(TRUE)>>,
                                    <<"group_by", input["group_by"]>>,
                                    <<"summary", Str(<< "Time entries grouped by %s" >>)>> >>))
               [] e.kind = "listTimeEntries" ->
                     IF Truthy(input["group_by"])
                       THEN Returns(Obj(<< <<"entries", body>>, <<"grouped", Bool(TRUE)>>,
                                           <<"group_by", input["group_by"]>> >>))
                     ELSE IF Length(body) = EffectiveLimit(input)
                       THEN Returns(Obj(<< <<"entries", body>>, <<"grouped", Bool(FALSE)>>,
                                           <<"warning", Str(<< "Result set limited to %s entries" >>)>> >>))
                     ELSE Returns(Obj(<< <<"entries", body>>, <<"grouped", Bool(FALSE)>> >>))
               [] e.kind = "quickStart" ->
                     IF step = 1
                       THEN (IF Field(body, "time_entry").t = "undefined"
                               THEN Throws("TypeError")
                               ELSE Calls(ApiRequest("PATCH", e.other, CreatedId(body),
                                                     Undefined, NoArgs, NoArgs)))
                       ELSE Returns(Field(body, e.wrap))

\* the exit status of process.exit(1)
ExitFailure == 1

\* the environment variables of the exploration: undefined, empty or set
EnvAccounts == { Undefined, Str(<< >>), Str(<< "acme" >>) }
EnvKeys == { Undefined, Str(<< >>), Str(<< "key" >>) }
EnvEmails == { Undefined, Str(<< >>), Str(<< "a@b.c" >>), Str(<< "not an email" >>) }
EnvPasswords == { Undefined, Str(<< >>), Str(<< "pw" >>) }
Modes == {"stdio", "http"}

\* a configuration that only needs an account name
AccountNameOnly(env) == Truthy(env.MITE_ACCOUNT_NAME)

\* miteConfigSchema.parse of getConfigFromEnv()'s object does not throw:
\* accountName (the variable or '') has at least one character, email is
\* absent or an e-mail address, and the refinement apiKey || (email &&
\* password) holds
ConfigLoads(env) ==
    /\ Truthy(env.MITE_ACCOUNT_NAME)
    /\ env.MITE_EMAIL.t = "undefined" \/ env.MITE_EMAIL = Str(<< "a@b.c" >>)
    /\ Truthy(env.MITE_API_KEY) \/ (Truthy(env.MITE_EMAIL) /\ Truthy(env.MITE_PASSWORD))

\* the process before main() has loaded the configuration
Starting(env, mode) ==
    [ phase |-> "start", env |-> env, mode |-> mode, reported |-> << >>,
      exited |-> FALSE, status |-> 0, apiClient |-> FALSE, server |-> FALSE,
      transport |-> "none" ]

\* the process once a server runs
Serving(mode) ==
    [ Starting([MITE_ACCOUNT_NAME |-> Str(<< "acme" >>), MITE_API_KEY |-> Str(<< "key" >>),
                MITE_EMAIL |-> Undefined, MITE_PASSWORD |-> Undefined], mode)
        EXCEPT !.phase = "serving", !.apiClient = TRUE, !.server = TRUE,
               !.transport = mode ]

\* try { config = getConfigFromEnv(); apiClient = new MiteApiClient(config) }
\* catch { console.error(...) nine times; process.exit(1) }
LoadConfig ==
    /\ main.phase = "start"
    /\ main' = IF ConfigLoads(main.env)
                 THEN [main EXCEPT !.phase = "configured", !.apiClient = TRUE]
                 ELSE [main EXCEPT !.phase = "exited", !.exited = TRUE,
                                   !.status = ExitFailure,
                                   !.reported = << "Configuration error:",
                                                   "Please set the following environment variables:",
                                                   "MITE_ACCOUNT_NAME", "MITE_API_KEY", "OR",
                                                   "MITE_EMAIL", "MITE_PASSWORD" >>]
    /\ UNCHANGED << inbox, arrived, running, reply, coerced, vars >>

\* const server = await setupServer(apiClient)
SetupServer ==
    /\ main.phase = "configured"
    /\ main' = [main EXCEPT !.phase = "set up", !.server = TRUE]
    /\ UNCHANGED << inbox, arrived, running, reply, coerced, vars >>

\* runHttpServer(server, options) or runStdioServer(server)
RunServer ==
    /\ main.phase = "set up"
    /\ main' = [main EXCEPT !.phase = "serving", !.transport = main.mode]
    /\ UNCHANGED << inbox, arrived, running, reply, coerced, vars >>

NoReply ==
    [ seq |-> 0, kind |-> "none", request |-> ListRequest,
      head |-> "", parts |-> << >>, literal |-> << >>, tools |-> << >>,
      resolved |-> FALSE, validated |-> FALSE, executed |-> FALSE,
      result |-> Undefined, content |-> << >>, sent |-> << >> ]

\* the dispatcher's response to request number seq
Reply(seq, req, kind) == [NoReply EXCEPT !.seq = seq, !.request = req, !.kind = kind]

\* the JSON-RPC error response for an Error thrown by a handler: its message
\* is `head` with `parts` joined by ', ' and with `literal` in it
ErrorReply(seq, req, head, parts, literal) ==
    [Reply(seq, req, "error") EXCEPT !.head = head, !.parts = parts, !.literal = literal]

InitDispatcher ==
    /\ inbox = << >>
    /\ arrived = 0
    /\ running = {}
    /\ reply = NoReply
    /\ coerced = Idle
    /\ main = Serving("http")

\* the ListTools handler answers a tools/list request
ListTools ==
    /\ inbox # << >>
    /\ Head(inbox).method = "tools/list"
    /\ inbox' = Tail(inbox)
    /\ arrived' = arrived + 1
    /\ reply' = [Reply(arrived + 1, Head(inbox), "list") EXCEPT !.tools = ListToolsResult]
    /\ UNCHANGED << running, coerced, main, vars >>

\* catch: error instanceof z.ZodError
IsZodError(v) == v.kind = "zod"

\* toolsByName.get(name) is defined
Registered(name) == name \in DOMAIN toolsByName

\* toolsByName.get(name)
Resolve(name) == toolsByName[name]

\* the CallTool handler takes a tools/call request up to its first await:
\* unknown name -> throw; inputSchema.parse(args || {}) -> throw, a ZodError
\* rewrapped as 'Invalid input: ...', any other error as it is; else the
\* tool's execute starts
CallTool ==
    /\ inbox # << >>
    /\ Head(inbox).method = "tools/call"
    /\ inbox' = Tail(inbox)
    /\ arrived' = arrived + 1
    /\ LET req == Head(inbox)
           seq == arrived + 1
       IN  IF ~Registered(req.name) THEN
               /\ reply' = ErrorReply(seq, req, "Tool %s not found", << req.name >>, << >>)
               /\ UNCHANGED running
           ELSE LET v == Validate(Resolve(req.name), req.args) IN
               IF v.kind # "ok" /\ IsZodError(v) THEN
                   /\ reply' = [ErrorReply(seq, req, "Invalid input: %s", v.messages, v.literal)
                                  EXCEPT !.validated = TRUE]
                   /\ UNCHANGED running
               ELSE IF v.kind # "ok" THEN
                   /\ reply' = [ErrorReply(seq, req, v.messages[1], << >>, v.literal)
                                  EXCEPT !.validated = TRUE]
                   /\ UNCHANGED running
               ELSE
                   LET first == FirstRequest(Resolve(req.name), v.input) IN
                   /\ running' = running \cup {[seq |-> seq, request |-> req,
                                                 input |-> v.input, step |-> 1,
                                                 sent |-> << first >>]}
                   /\ reply' = [Reply(seq, req, "none")
                                  EXCEPT !.validated = TRUE, !.executed = TRUE,
                                         !.sent = << first >>]
    /\ UNCHANGED << coerced, main, vars >>

\* { content: [{ type: 'text', text: JSON.stringify(result, null, 2) }] }
Content(result) == << [type |-> "text", text |-> Stringify(result)] >>

\* the upstream API answers the pending call of an execute, which then
\* settles: the handler returns the content block, or rethrows what execute
\* threw
ExecuteSettles(c, response) ==
    /\ c \in running
    /\ LET out == Continue(Resolve(c.request.name), c.input, c.step, response)
       IN  /\ out.does # "call"
           /\ reply' = IF out.does = "return"
                         THEN [Reply(c.seq, c.request, "result") EXCEPT !.resolved = TRUE,
                                   !.validated = TRUE, !.executed = TRUE,
                                   !.result = out.value, !.content = Content(out.value),
                                   !.sent = c.sent]
                         ELSE [ErrorReply(c.seq, c.request, out.head, << >>, << >>)
                                 EXCEPT !.validated = TRUE, !.executed = TRUE,
                                        !.sent = c.sent]
    /\ running' = running \ {c}
    /\ UNCHANGED << inbox, arrived, coerced, main, vars >>

\* the upstream API answers the pending call of an execute, which then makes
\* its next call
ExecuteContinues(c, response) ==
    /\ c \in running
    /\ LET out == Continue(Resolve(c.request.name), c.input, c.step, response)
       IN  /\ out.does = "call"
           /\ running' = (running \ {c})
                            \cup {[c EXCEPT !.step = @ + 1, !.sent = @ \o out.next]}
           /\ reply' = [Reply(c.seq, c.request, "none")
                          EXCEPT !.validated = TRUE, !.executed = TRUE,
                                 !.sent = c.sent \o out.next]
    /\ UNCHANGED << inbox, arrived, coerced, main, vars >>

\* schema.parse(input)
Coerce ==
    /\ coerced.times = 0
    /\ coerced' = [coerced EXCEPT !.output = Apply(coerced.schema, coerced.input),
                                  !.times = 1]
    /\ UNCHANGED << inbox, arrived, running, reply, main, vars >>

\* schema.parse(schema.parse(input)): the value parse returned is parsed again
Recoerce ==
    /\ coerced.times = 1
    /\ coerced.output.kind = "ok"
    /\ coerced' = [coerced EXCEPT !.again = Apply(coerced.schema, coerced.output.value),
                                  !.times = 2]
    /\ UNCHANGED << inbox, arrived, running, reply, main, vars >>

----------------------------------------------------------------------------
(* Specifications *)

\* a request that reaches no session, or a GET or DELETE, or a close notification
Other ==
    \/ NoUrl
    \/ BadUrl
    \/ \E u \in Urls : Options(u)
    \/ \E m \in Methods, u \in Urls : NotFound(m, u)
    \/ \E m \in Methods, u \in Urls : MethodNotAllowed(m, u)
    \/ \E u \in Urls, s \in Sids : PostReceive(u, s)
    \/ \E u \in Urls, s \in Sids : GetInvalid(u, s)
    \/ \E u \in Urls, s \in Sids, h \in HostHeaders, fault \in BOOLEAN :
          GetRequest(u, s, h, fault)
    \/ \E u \in Urls, s \in Sids : DeleteInvalid(u, s)
    \/ \E u \in Urls, s \in Sids, h \in HostHeaders, fault \in BOOLEAN :
          DeleteRequest(u, s, h, fault)
    \/ \E t \in TransportIds : TransportClose(t)

\* the session layer alone: the clients send no request that runs a tool
NextSessions ==
    \/ Other
    \/ \E s \in Sids, b \in SessionBodies, h \in HostHeaders \cup {Unread},
          fault \in Faults : PostEnd(s, b, NoRpc, h, fault)

Init == InitHttp /\ InitDispatcher

SpecSessions == Init /\ [][NextSessions]_allVars

\* the session layer and the tool executions of the dispatcher
Next ==
    \/ Other
    \/ \E s \in Sids, b \in Bodies, k \in {NoRpc} \cup RpcIds,
          h \in HostHeaders \cup {Unread}, fault \in Faults : PostEnd(s, b, k, h, fault)
    \/ \E c \in calls : ToolComplete(c)

Spec == Init /\ [][Next]_allVars

\* the requests a stdio client pipelines: a listing, a call of no tool, a
\* call that runs and a call its contract refuses
PipelinedRequests ==
    { ListRequest, CallRequest("no_such_tool", NoArgs),
      CallRequest("get_customer", [id |-> Num(5)]),
      CallRequest("get_service", [id |-> Str(<<"a">>)]) }

RECURSIVE SeqsUpTo(_, _)
SeqsUpTo(S, n) ==
    IF n = 0 THEN { << >> }
    ELSE LET shorter == SeqsUpTo(S, n - 1)
         IN  shorter \cup { Append(q, x) : q \in { r \in shorter : Len(r) = n - 1 }, x \in S }

\* what the client has written before the dispatcher reads: one request of
\* any kind, or a short pipeline
Inboxes == { << r >> : r \in Requests } \cup SeqsUpTo(PipelinedRequests, MaxRequests)

\* the dispatcher on one connection (runStdioServer): the client's requests
\* are in the pipe
InitStdio ==
    /\ InitHttp
    /\ inbox \in Inboxes
    /\ arrived = 0
    /\ running = {}
    /\ reply = NoReply
    /\ coerced = Idle
    /\ main = Serving("stdio")

NextStdio ==
    \/ ListTools
    \/ CallTool
    \/ \E c \in running : \E response \in Responses(Resolve(c.request.name)) :
          ExecuteSettles(c, response)
    \/ \E c \in running : \E response \in Responses(Resolve(c.request.name)) :
          ExecuteContinues(c, response)

SpecStdio == InitStdio /\ [][NextStdio]_allVars

\* the coercion schemas, each applied to each value
InitCoercion ==
    /\ InitHttp
    /\ inbox = << >>
    /\ arrived = 0
    /\ running = {}
    /\ reply = NoReply
    /\ coerced \in [schema : CoercionSchemas, input : CoercionInputs,
                     output : {NotParsed}, again : {NotParsed}, times : {0}]
    /\ main = Serving("stdio")

NextCoercion ==
    \/ Coerce
    \/ Recoerce

SpecCoercion == InitCoercion /\ [][NextCoercion]_allVars

----------------------------------------------------------------------------
(* Properties *)

\* the task was a request of method m that reached the routing of a
\* recognised path
Routed(m) == last.ev = "http" /\ last.method = m /\ last.url = "mcp"

\* the task was the 'end' of a POST whose body parsed to a JSON value
ParsedPost == Routed("POST") /\ last.body # "invalid"

\* the transports other than t
Others(t) == TransportIds \ {t}

\* C1: a POST on a recognised path without Mcp-Session-Id whose body parses to
\* an 'initialize' message constructs a transport, hands the request to it and
\* binds it to the dispatcher; when the transport accepts the request (its
\* Host header is allow-listed and handleRequest does not reject) a session
\* id that no other transport carries is generated, and the table maps that
\* id to the new transport when the 200 response is written.
C1_InitializationStoresSession ==
    (ParsedPost /\ last.sid = NoSid /\ last.body = "initialize") =>
        /\ last.created # NoT
        /\ last.bound = last.created
        /\ srvTransport = last.created
        /\ last.invoked = last.created
        /\ (HostAccepted(options, last.host) /\ ~last.threw) =>
              /\ last.status = 200
              /\ last.newSid # NoSid
              /\ sessionId[last.created] = last.newSid
              /\ \A t \in Others(last.created) : sessionId[t] # last.newSid
              /\ last.entry
              /\ Get(transports, last.newSid) = last.created

\* a second session has just been initialized while the first is in the table
C1_Witness ==
    /\ ParsedPost /\ last.sid = NoSid /\ last.body = "initialize"
    /\ last.status = 200 /\ last.entry
    /\ last.newSid = 2
    /\ Has(transports, 1) /\ Has(transports, 2)

\* C2: every POST (with a body that parses) whose Mcp-Session-Id is in the
\* session table when the request is routed is handed to the transport stored
\* under that id, whatever the body is; no transport is constructed, none is
\* bound to the dispatcher, no session id is generated and the stored
\* transport keeps its session id.
C2_KnownSessionReusesTransport ==
    (ParsedPost /\ last.sid # NoSid /\ last.stored # NoT) =>
        /\ last.invoked = last.stored
        /\ last.created = NoT
        /\ last.bound = NoT
        /\ last.newSid = NoSid
        /\ sessionId[last.stored] = last.sid

\* an 'initialize' sent again on an existing session reached its transport
C2_Witness ==
    /\ ParsedPost /\ last.sid # NoSid /\ last.stored # NoT
    /\ last.body = "initialize"
    /\ last.invoked = last.stored
    /\ last.status = 400

\* C3: sessions are isolated -- the response to a request is written only on
\* the response stream of the transport the request arrived on.
C3_ResponseOnOwnChannel ==
    (last.ev = "rpc" /\ last.on # NoT) => last.on = last.from

\* a tool's response has been written on a stream of the transport it came from
C3_Witness == last.ev = "rpc" /\ last.on # NoT /\ last.on = last.from

\* C4: a POST whose body parses as JSON and that carries a session id which is
\* not in the table, or no session id and a body that is not an 'initialize'
\* message, is answered 400 with error code -32000 'Bad Request: No valid
\* session ID provided'; no transport is constructed, bound or invoked.
C4_NoValidSessionAnswered ==
    (/\ ParsedPost
     /\ \/ last.sid # NoSid /\ last.stored = NoT
        \/ last.sid = NoSid /\ last.body # "initialize") =>
        /\ last.status = 400
        /\ last.code = -32000
        /\ last.text = "Bad Request: No valid session ID provided"
        /\ last.created = NoT /\ last.bound = NoT /\ last.invoked = NoT

\* a notification without session id has been refused with the envelope
C4_Witness ==
    /\ ParsedPost /\ last.sid = NoSid /\ last.body = "notification"
    /\ last.status = 400 /\ last.code = -32000

\* C5: once a DELETE bearing session id S has succeeded, S is not in the
\* table any more, and every later GET or DELETE on a recognised path that
\* bears S is answered 400 'Invalid or missing session ID', and reaches no
\* transport.
C5_DeletedSessionUnusable ==
    /\ \A s \in Deleted : ~Has(transports, s)
    /\ ((Routed("GET") \/ Routed("DELETE")) /\ last.was) =>
          /\ last.status = 400
          /\ last.text = "Invalid or missing session ID"
          /\ last.invoked = NoT

\* a GET bearing the id of a deleted session while another session is live
C5_Witness ==
    /\ Routed("GET") /\ last.was /\ last.status = 400
    /\ \E s \in SessionIds : Has(transports, s)

\* C6: a GET or DELETE on a recognised path whose Mcp-Session-Id is missing
\* or is not in the session table is answered 400 with the text 'Invalid or
\* missing session ID'; no transport's handleRequest is invoked and no
\* session ends.
C6_InvalidSessionRejected ==
    ((Routed("GET") \/ Routed("DELETE")) /\ (last.sid = NoSid \/ last.stored = NoT)) =>
        /\ last.status = 400
        /\ last.text = "Invalid or missing session ID"
        /\ last.invoked = NoT
        /\ ~last.threw

\* a DELETE bearing an id that was never issued, while a session is live
C6_Witness ==
    /\ Routed("DELETE") /\ last.sid # NoSid /\ last.stored = NoT /\ ~last.was
    /\ last.status = 400
    /\ \E s \in SessionIds : Has(transports, s)

\* the task ended the session with id s: its transport signalled closure, or
\* a DELETE bearing s succeeded
Ends(s) ==
    \/ last'.ev = "close" /\ last'.sid = s
    \/ last'.ev = "http" /\ last'.method = "DELETE" /\ last'.sid = s
          /\ last'.status = 200

\* C7: a transport that has signalled closure or was terminated by a DELETE
\* has no entry in the session table, in whatever order and however often the
\* two happen; the close notification raises no error; and a step removes or
\* changes an entry only when it ends that very session.
C7_CloseRemovesOnlyOwnEntry ==
    /\ [](\A t \in TransportIds :
            (ended[t] # "live" /\ sessionId[t] # NoSid) => ~Has(transports, sessionId[t]))
    /\ [](last.ev = "close" => (~last.threw /\ alive))
    /\ [][ /\ \A s \in DOMAIN transports :
                \/ Has(transports', s) /\ transports'[s] = transports[s]
                \/ Ends(s) /\ ~Has(transports', s)
           /\ \A s \in SessionIds : Ends(s) => ~Has(transports', s) ]_vars

\* a transport a DELETE had terminated has then signalled closure, while
\* another session stays in the table
C7_Witness ==
    /\ last.ev = "close" /\ last.sid # NoSid
    /\ ended[last.on] = "deleted"
    /\ \E s \in SessionIds \ {last.sid} : Has(transports, s)

\* C8: an initializing POST whose Host header is not in allowedHosts is
\* rejected (403) and no session id is generated for it; and an entry enters
\* the session table only for the transport of an initializing POST whose
\* Host header is in allowedHosts, in the task that constructs the transport
\* -- so the transport of a rejected initialization never appears in the
\* table.
C8_RejectedHostNeverStored ==
    /\ []((ParsedPost /\ last.sid = NoSid /\ last.body = "initialize"
             /\ last.host # Unread /\ last.host \notin allowedHosts(options)) =>
            /\ last.status = 403
            /\ last.newSid = NoSid /\ ~last.entry
            /\ sessionId[last.created] = NoSid
            /\ \A s \in DOMAIN transports : transports[s] # last.created)
    /\ [][ \A s \in (DOMAIN transports') \ (DOMAIN transports) :
              /\ last'.ev = "http" /\ last'.method = "POST" /\ last'.body = "initialize"
              /\ last'.host \in allowedHosts(options)
              /\ last'.created = nextT' /\ nextT' = nextT + 1
              /\ transports'[s] = last'.created ]_vars

\* an initialization with the right host name and the wrong port was
\* rejected while a session was live
C8_Witness ==
    /\ ParsedPost /\ last.sid = NoSid /\ last.body = "initialize"
    /\ last.host = Host("example.com", 8080)
    /\ last.status = 403
    /\ \E s \in SessionIds : Has(transports, s)

\* C9: every response that is written carries the CORS headers.
C9_EveryResponseHasCors == last.status # NoStatus => last.cors

\* an error response with the CORS headers
C9_Witness == last.status = 404 /\ last.cors

\* C10: no error escapes the request handler -- every error raised while a
\* request is handled is answered, and the process keeps running.
C10_NoErrorEscapes == alive /\ (last.threw => last.status # NoStatus)

\* an error of a POST was caught and answered
C10_Witness == last.threw /\ last.status = 500 /\ alive

\* the 500 envelope of the catch block
InternalErrorEnvelope ==
    last.status = 500 /\ last.code = -32603 /\ last.text = "Internal server error"

\* C11: a POST whose body is not valid JSON is answered 500 with the
\* -32603 'Internal server error' envelope; so is every POST during whose
\* handling an error is thrown before a response has been started; when the
\* error is thrown after the transport has started the response, that
\* response stands and nothing more is written.  A POST never gets more than
\* one response.
C11_PostErrorAnsweredOnce ==
    Routed("POST") =>
        /\ last.writes <= 1
        /\ last.body = "invalid" => last.threw
        /\ (last.threw /\ ~last.late) => (InternalErrorEnvelope /\ last.writes = 1)
        /\ (last.threw /\ last.late) =>
              (last.writes = 1 /\ last.invoked # NoT /\ ~InternalErrorEnvelope)

\* handleRequest rejected after the transport had answered an initialization
C11_Witness ==
    /\ Routed("POST") /\ last.threw /\ last.late
    /\ last.body = "initialize" /\ last.status = 200 /\ last.writes = 1

\* the dispatcher sent a response
Answered == reply.kind \in {"result", "error", "list"}

\* C12: within one session the requests are answered in arrival order: no
\* response is sent while a request that arrived earlier is still waiting
\* for its tool execution.
C12_AnsweredInArrivalOrder ==
    Answered => \A c \in running : c.seq > reply.seq

\* a later request was answered while an earlier execution was pending
C12_Witness == Answered /\ \E c \in running : c.seq < reply.seq

\* a tool execution of another session is still pending
OtherSessionHangs(t) == \E c \in calls : c.from # t

\* C13: a tool execution that does not complete in one session stalls only
\* that session: while it is pending, a request of another session is
\* dispatched and, when its own execution completes, answered on the
\* transport it arrived on.
C13_HungCallStallsOnlyItsSession ==
    /\ (Routed("POST") /\ last.body = "tools/call" /\ last.status = 200
          /\ OtherSessionHangs(last.invoked)) =>
            \E c \in calls : c.from = last.invoked /\ c.id = last.rpc
    /\ (last.ev = "rpc" /\ OtherSessionHangs(last.from)) => last.on = last.from

\* a call of one session was answered while a call of another was pending
C13_Witness == last.ev = "rpc" /\ OtherSessionHangs(last.from) /\ last.on = last.from

\* the sessions, their transports and the dispatcher are as they were
SessionsUntouched ==
    UNCHANGED << transports, nextT, nextSid, sessionId, streams, ended,
                 srvTransport, calls >>

\* the task answered without reading the table or reaching a transport
NoTransportReached(res) ==
    res.stored = NoT /\ res.invoked = NoT /\ res.created = NoT /\ res.bound = NoT

\* C14: a request to a path other than '/' and '/mcp' whose method is not
\* OPTIONS is answered 404 'Not Found'; an OPTIONS request to such a path is
\* answered 200 like every OPTIONS request; neither is handed to a transport
\* nor changes the session table.
C14_OtherPathNotFound ==
    [][ (last'.ev = "http" /\ last'.url = "other") =>
           /\ IF last'.method = "OPTIONS"
                THEN last'.status = 200 /\ last'.text = ""
                ELSE last'.status = 404 /\ last'.text = "Not Found"
           /\ NoTransportReached(last')
           /\ SessionsUntouched ]_allVars

\* a DELETE to another path was answered 404 while a session was active
C14_Witness ==
    /\ last.ev = "http" /\ last.url = "other" /\ last.method = "DELETE"
    /\ last.status = 404 /\ DOMAIN transports # {}

\* C14 as stated: a request to any other path, whatever its method, is
\* answered 404 'Not Found', reaches no transport and changes no session.
C14_AnyMethodNotFound ==
    [][ (last'.ev = "http" /\ last'.url = "other") =>
           /\ last'.status = 404 /\ last'.text = "Not Found"
           /\ NoTransportReached(last')
           /\ SessionsUntouched ]_allVars

\* C15: a request without URL is answered 400 'Bad Request' before anything
\* else is done with it (no CORS header is set yet, no route is chosen); a
\* request to '/' or '/mcp' whose method is none of POST, GET, DELETE,
\* OPTIONS is answered 405 'Method Not Allowed'; neither reads or changes the
\* session table or reaches a transport.
C15_BadRequestAndMethodNotAllowed ==
    [][ /\ (last'.ev = "http" /\ last'.url = "none") =>
              /\ last'.status = 400 /\ last'.text = "Bad Request"
              /\ ~last'.cors
              /\ NoTransportReached(last')
              /\ SessionsUntouched
        /\ (/\ last'.ev = "http" /\ last'.url = "mcp"
            /\ last'.method \notin {"POST", "GET", "DELETE", "OPTIONS"}) =>
              /\ last'.status = 405 /\ last'.text = "Method Not Allowed"
              /\ NoTransportReached(last')
              /\ SessionsUntouched ]_allVars

\* a PUT was answered 405 while a session was active
C15_Witness ==
    /\ last.ev = "http" /\ last.url = "mcp" /\ last.method = "PUT"
    /\ last.status = 405 /\ DOMAIN transports # {}

\* C16: an OPTIONS request to '/' or '/mcp' is answered in every state of
\* the session table, with status 200, an empty body and the CORS headers,
\* and it neither creates, uses nor removes a session.
C16_OptionsAlwaysBare200 ==
    /\ [](alive => (ENABLED Options("/") /\ ENABLED Options("/mcp")))
    /\ [][ (last'.ev = "http" /\ last'.method = "OPTIONS" /\ last'.url = "mcp") =>
              /\ last'.status = 200 /\ last'.text = "" /\ last'.writes = 1
              /\ last'.cors
              /\ NoTransportReached(last')
              /\ SessionsUntouched ]_allVars

\* a preflight was answered with one session active and another just closed
C16_Witness ==
    /\ last.ev = "http" /\ last.method = "OPTIONS" /\ last.url = "mcp"
    /\ last.status = 200 /\ last.cors
    /\ DOMAIN transports # {}
    /\ \E t \in TransportIds : ended[t] = "closed"

\* the names the tool descriptors carry
RegisteredNames == { allTools[i].name : i \in 1..Len(allTools) }

\* the dispatcher has just handled a tools/call request
Called == reply.seq # 0 /\ reply.request.method = "tools/call"

\* C17: a call of a name that no registered tool carries fails with the
\* error 'Tool <name> not found' naming that name, and neither a tool's
\* input validation nor an execute function runs for it.
C17_UnknownToolNotFound ==
    (Called /\ reply.request.name \notin RegisteredNames) =>
        /\ reply.kind = "error"
        /\ reply.head = "Tool %s not found"
        /\ reply.parts = << reply.request.name >>
        /\ ~reply.validated /\ ~reply.executed
        /\ \A c \in running : c.seq # reply.seq

\* a call of an unregistered name, with arguments, has been refused
C17_Witness ==
    /\ Called /\ reply.request.name = "no_such_tool"
    /\ DOMAIN reply.request.args # {}
    /\ reply.kind = "error" /\ reply.parts = << "no_such_tool" >>

\* the contract of the called tool rejects the arguments of the call
Rejected ==
    /\ Called /\ reply.request.name \in RegisteredNames
    /\ Validate(toolsByName[reply.request.name], reply.request.args).kind # "ok"

\* C18: a call of a registered tool whose arguments its input contract
\* rejects fails with an error whose message is 'Invalid input: ' followed
\* by the joined field errors, and the tool's execute is not invoked.
C18_RejectedInputIsInvalidInput ==
    Rejected =>
        /\ reply.kind = "error"
        /\ reply.head = "Invalid input: %s"
        /\ reply.parts # << >>
        /\ ~reply.executed
        /\ \A c \in running : c.seq # reply.seq

\* a string that z.coerce.number() cannot convert was refused as invalid input
C18_Witness ==
    /\ Rejected /\ reply.request.name = "get_service"
    /\ reply.head = "Invalid input: %s"
    /\ reply.parts = << "Expected number, received nan" >>

\* the names of the descriptors the five create...Tools functions return
DescriptorNames ==
    LET all == createTimeEntriesTools \o createCustomersTools \o createProjectsTools
                  \o createServicesTools \o createStopwatchTools
    IN  { all[i].name : i \in 1..Len(all) }

\* the dispatcher has just handled a tools/list request
Listed == reply.seq # 0 /\ reply.request.method = "tools/list"

\* C19: the result of 'list tools' names exactly the registered tools, each
\* once and each with a non-empty description; the names it lists are
\* exactly those 'call tool' resolves; listing always succeeds.
C19_ListNamesExactlyTheRegisteredTools ==
    Listed =>
        /\ reply.kind = "list"
        /\ { reply.tools[i].name : i \in 1..Len(reply.tools) } = DescriptorNames
        /\ \A i, j \in 1..Len(reply.tools) :
              reply.tools[i].name = reply.tools[j].name => i = j
        /\ \A i \in 1..Len(reply.tools) : reply.tools[i].description # ""
        /\ { reply.tools[i].name : i \in 1..Len(reply.tools) }
              = { n \in CalledNames : Registered(n) }

\* the tools were listed while an earlier call was still executing
C19_Witness ==
    /\ Listed /\ reply.kind = "list" /\ reply.tools # << >>
    /\ reply.seq > 1 /\ running # {}

\* a string that writes a number: decimal digits, with or without a sign,
\* with or without white space around them
NumericString(w) ==
    LET x == Trim(w)
    IN  AllDigits(x) \/ (x # << >> /\ Head(x) = "-" /\ AllDigits(Tail(x)))

\* the number a numeric string writes
NumericValue(w) ==
    LET x == Trim(w)
    IN  IF Head(x) = "-" THEN 0 - DecimalValue(Tail(x)) ELSE DecimalValue(x)

\* a number schema has parsed a value
NumberCoerced ==
    coerced.times >= 1 /\ coerced.schema \in {"optionalNumber", "requiredNumber"}

\* C20: number coercion returns a native number as it is, parses a numeric
\* string to its value, maps the empty string to absent (optionalNumber) or
\* to 0 (requiredNumber), and fails for every other string with an error
\* that names the string.
C20_NumberCoercion ==
    NumberCoerced =>
        LET x == coerced.input
            out == coerced.output
        IN  /\ x.t = "number" => out = Parsed(x)
            /\ (x.t = "string" /\ NumericString(x.v)) =>
                  out = Parsed(Num(NumericValue(x.v)))
            /\ (x.t = "string" /\ x.v = << >>) =>
                  out = IF coerced.schema = "optionalNumber"
                          THEN Parsed(Undefined) ELSE Parsed(Num(0))
            /\ (x.t = "string" /\ x.v # << >> /\ ~NumericString(x.v)) =>
                  /\ out.kind = "error"
                  /\ out.message = "Invalid number"
                  /\ out.literal = x.v

\* a string that is no number was refused with an error naming it
C20_Witness ==
    /\ NumberCoerced /\ coerced.input = Str(<<"7", "a">>)
    /\ coerced.output.kind = "error" /\ coerced.output.literal = <<"7", "a">>

\* a boolean schema has parsed a value
BooleanCoerced ==
    coerced.times >= 1 /\ coerced.schema \in {"optionalBoolean", "requiredBoolean"}

\* the strings that write true, and those that write false
TrueStrings == { <<"t", "r", "u", "e">>, <<"1">> }
FalseStrings == { <<"f", "a", "l", "s", "e">>, <<"0">> }

\* C21: boolean coercion returns a native boolean as it is, turns 'true' and
\* '1' into true and 'false' and '0' into false, maps the empty string to
\* absent (optionalBoolean) or refuses it (requiredBoolean), and fails for
\* every other string with an error that names the string.
C21_BooleanCoercion ==
    BooleanCoerced =>
        LET x == coerced.input
            out == coerced.output
            refused == /\ out.kind = "error"
                       /\ out.message = "Invalid boolean"
                       /\ out.literal = x.v
        IN  /\ x.t = "boolean" => out = Parsed(x)
            /\ (x.t = "string" /\ x.v \in TrueStrings) => out = Parsed(Bool(TRUE))
            /\ (x.t = "string" /\ x.v \in FalseStrings) => out = Parsed(Bool(FALSE))
            /\ (x.t = "string" /\ x.v = << >>) =>
                  IF coerced.schema = "optionalBoolean"
                    THEN out = Parsed(Undefined) ELSE refused
            /\ (x.t = "string" /\ x.v # << >> /\ x.v \notin TrueStrings \cup FalseStrings)
                  => refused

\* requiredBoolean has turned the string 'false' into false
C21_Witness ==
    /\ BooleanCoerced /\ coerced.schema = "requiredBoolean"
    /\ coerced.input = Str(<<"f", "a", "l", "s", "e">>)
    /\ coerced.output = Parsed(Bool(FALSE))

\* the value already has the type the schema produces
AlreadyTyped ==
    \/ coerced.schema \in {"optionalNumber", "requiredNumber"} /\ coerced.input.t = "number"
    \/ coerced.schema \in {"optionalBoolean", "requiredBoolean"} /\ coerced.input.t = "boolean"

\* C22: each of the four coercion schemas is idempotent: a value that already
\* has the schema's type is returned unchanged, and parsing the value a
\* first parse returned yields that same value.
C22_CoercionIdempotent ==
    /\ (coerced.times >= 1 /\ AlreadyTyped) => coerced.output = Parsed(coerced.input)
    /\ coerced.times = 2 => coerced.again = coerced.output

\* the number parsed from a string was parsed again and came back the same
C22_Witness ==
    /\ coerced.times = 2 /\ coerced.schema = "optionalNumber"
    /\ coerced.input = Str(<<"1", "7">>)
    /\ coerced.output = Parsed(Num(17)) /\ coerced.again = Parsed(Num(17))

\* the call-tool handler returned a result
Returned == Called /\ reply.kind = "result"

\* C23: when a tool's execute completes successfully the response holds
\* exactly one content block, of type 'text', whose text is the JSON text of
\* the result; parsing that text yields a value equal to the result.
C23_ResultRoundTrips ==
    Returned =>
        /\ Len(reply.content) = 1
        /\ reply.content[1].type = "text"
        /\ reply.content[1].text # NoText
        /\ JsonParse(reply.content[1].text) = reply.result

\* the result of a listing with a warning was serialised and parses back
C23_Witness ==
    /\ Returned /\ reply.request.name = "list_time_entries"
    /\ Field(reply.result, "warning").t = "string"
    /\ reply.content[1].text # NoText
    /\ JsonParse(reply.content[1].text) = reply.result

----------------------------------------------------------------------------
(* The start of the process: main() (index.ts) *)

InitMain ==
    /\ InitHttp
    /\ inbox = << >>
    /\ arrived = 0
    /\ running = {}
    /\ reply = NoReply
    /\ coerced = Idle
    /\ main \in { Starting(env, mode) :
                    env \in [MITE_ACCOUNT_NAME : EnvAccounts, MITE_API_KEY : EnvKeys,
                             MITE_EMAIL : EnvEmails, MITE_PASSWORD : EnvPasswords],
                    mode \in Modes }

NextMain ==
    \/ LoadConfig
    \/ SetupServer
    \/ RunServer

SpecMain == InitMain /\ [][NextMain]_allVars

\* the variable is set to a non-empty string
IsSet(x) == x.t = "string" /\ x.v # << >>

\* the account name is missing, or there is neither an API key nor an
\* e-mail address with a password
ConfigurationIncomplete ==
    \/ ~IsSet(main.env.MITE_ACCOUNT_NAME)
    \/ ~(IsSet(main.env.MITE_API_KEY)
           \/ (IsSet(main.env.MITE_EMAIL) /\ IsSet(main.env.MITE_PASSWORD)))

\* C24: when the configuration cannot be loaded -- the account name is
\* missing, or there is neither an API key nor an e-mail/password pair -- the
\* error and the remediation hints are reported, the process exits with
\* status 1, no dispatcher is built and no transport is started.
C24_ConfigFailureExits ==
    ConfigurationIncomplete =>
        /\ ~main.apiClient /\ ~main.server /\ main.transport = "none"
        /\ main.phase \in {"start", "exited"}
        /\ main.phase = "exited" =>
              /\ main.exited /\ main.status = ExitFailure
              /\ Len(main.reported) > 1
              /\ main.reported[1] = "Configuration error:"

\* the process has exited for an account name without any credentials
C24_Witness ==
    /\ main.phase = "exited" /\ main.status = ExitFailure
    /\ IsSet(main.env.MITE_ACCOUNT_NAME)
    /\ main.env.MITE_API_KEY = Undefined /\ main.env.MITE_PASSWORD = Undefined

\* the string 'false'
FalseString == Str(<<"f", "a", "l", "s", "e">>)

\* the tools that list the active or the archived entities, and the paths of
\* the active lists
ArchivableLists == {"list_services", "list_customers", "list_projects"}
ActiveListPaths == {"/services.json", "/customers.json", "/projects.json"}

\* a list tool was called with archived = 'false'
ListCalledWithFalseString ==
    /\ Called /\ reply.request.name \in ArchivableLists
    /\ DOMAIN reply.request.args = {"archived"}
    /\ reply.request.args["archived"] = FalseString

\* C25: a boolean field reached through 'call tool' follows the boolean
\* coercion contract: list_services, list_customers and list_projects called
\* with archived = 'false' are executed and query the active list, not the
\* archived one.
C25_FalseStringListsActive ==
    ListCalledWithFalseString =>
        /\ reply.executed
        /\ Len(reply.sent) = 1
        /\ reply.sent[1].path \in ActiveListPaths

\* list_customers, called with archived = 'false', has queried /customers.json
C25_Witness ==
    /\ ListCalledWithFalseString /\ reply.request.name = "list_customers"
    /\ reply.executed /\ reply.sent[1].path = "/customers.json"

\* list_time_entries was called and its execute has made its upstream call
ListedTimeEntries ==
    /\ Called /\ reply.request.name = "list_time_entries"
    /\ reply.executed /\ Len(reply.sent) = 1

\* the limit the caller gives: a number, or the number a string writes; 0
\* when the caller gives none
CallerLimit ==
    LET args == reply.request.args
        x == IF "limit" \in DOMAIN args THEN args["limit"] ELSE Undefined
    IN  IF x.t = "number" THEN x.v
        ELSE IF x.t = "string" /\ NumericString(x.v) THEN NumericValue(x.v)
        ELSE 0

\* the limit that applies: the caller's when given and not zero, else 500
LimitInEffect == IF CallerLimit # 0 THEN CallerLimit ELSE DefaultLimit

\* the result says that the result set was limited
Warned == Field(reply.result, "warning").t # "undefined"

\* the result holds exactly n entries
HoldsEntries(n) == Field(reply.result, "entries") = Entities(n)

\* C26: list_time_entries without group_by always queries with a limit, the
\* caller's when one is given and is not zero and 500 otherwise, and its
\* result carries a warning exactly when the number of entries returned is
\* that limit; with group_by no limit is sent and no warning is produced.
C26_LimitAndWarning ==
    ListedTimeEntries =>
        LET query == reply.sent[1].query IN
        IF "group_by" \in DOMAIN reply.request.args
          THEN /\ "limit" \notin DOMAIN query
               /\ reply.kind = "result" => ~Warned
          ELSE /\ "limit" \in DOMAIN query
               /\ query["limit"] = Num(LimitInEffect)
               /\ reply.kind = "result" => (Warned <=> HoldsEntries(LimitInEffect))

\* called with limit '7', list_time_entries got 7 entries and warns
C26_Witness ==
    /\ ListedTimeEntries /\ reply.kind = "result"
    /\ DOMAIN reply.request.args = {"limit"}
    /\ reply.request.args["limit"] = Str(<<"7">>)
    /\ HoldsEntries(7) /\ Warned

\* the tool quick_start_stopwatch
QuickStart == toolsByName["quick_start_stopwatch"]

\* the fields a caller gave, as the contract parsed them
GivenFields(request) ==
    LET input == Validate(QuickStart, request.args).input
    IN  [f \in { g \in DOMAIN input : input[g].t # "undefined" } |-> input[f]]

\* the request creates a time entry for today with 0 minutes and the given fields
CreatesEntry(request, given) ==
    /\ request.method = "POST" /\ request.path = "/time_entries.json"
    /\ Sent(request.body) =
         [f \in {"date_at", "minutes"} \cup DOMAIN given |->
            IF f \in DOMAIN given THEN given[f]
            ELSE IF f = "date_at" THEN Today ELSE Num(0)]

\* the request starts the tracker for the entry with this id
StartsTracker(request, id) ==
    request.method = "PATCH" /\ request.path = "/tracker/%s.json" /\ request.id = id

\* the upstream calls of a quick_start_stopwatch so far: the create, or the
\* create and then the start
QuickStartOrder ==
    (Called /\ reply.request.name = "quick_start_stopwatch" /\ reply.executed) =>
        /\ Len(reply.sent) \in {1, 2}
        /\ CreatesEntry(reply.sent[1], GivenFields(reply.request))
        /\ Len(reply.sent) = 2 => reply.sent[2].method = "PATCH"

\* what quick_start_stopwatch does when the upstream API answers its call
QuickStartStep ==
    \A c \in running : \A r \in Responses(QuickStart) :
        (c.request.name = "quick_start_stopwatch"
            /\ (ExecuteSettles(c, r) \/ ExecuteContinues(c, r))) =>
            /\ reply'.seq = c.seq
            /\ ~r.ok => /\ reply'.kind = "error" /\ reply'.head = "API Error"
                        /\ reply'.sent = c.sent
            /\ (r.ok /\ c.step = 1 /\ Field(r.body, "time_entry").t = "object") =>
                  /\ reply'.kind = "none"
                  /\ Len(reply'.sent) = 2 /\ reply'.sent[1] = c.sent[1]
                  /\ StartsTracker(reply'.sent[2], Field(Field(r.body, "time_entry"), "id"))
            /\ (r.ok /\ c.step = 2) =>
                  /\ reply'.kind = "result" /\ reply'.sent = c.sent
                  /\ reply'.result = Field(r.body, "tracking_time_entry")

\* C27: quick_start_stopwatch makes its two upstream calls in a fixed order:
\* first the create of a time entry (today's date, 0 minutes, the given
\* fields), then the start of the tracker for exactly the id the create
\* returned; the start is not issued when the create fails, and a failure of
\* either call is the tool's error.
C27_QuickStartCreatesThenStarts == []QuickStartOrder /\ [][QuickStartStep]_allVars

\* the tracker was started for the created entry 7 and the tool has returned
C27_Witness ==
    /\ Called /\ reply.request.name = "quick_start_stopwatch"
    /\ reply.kind = "result" /\ Len(reply.sent) = 2
    /\ StartsTracker(reply.sent[2], Field(Created, "id"))

\* the texts of the responses the handler writes by itself
HandlerTexts ==
    { "Bad Request", "Bad Request: No valid session ID provided",
      "Invalid or missing session ID", "Not Found", "Method Not Allowed",
      "Internal server error", "Transport not found" }

\* the task was a request the handler answered by itself with 400, 404, 405
\* or 500, or an OPTIONS request
AnsweredByHandler(res) ==
    /\ res.ev = "http"
    /\ \/ res.method = "OPTIONS"
       \/ res.status \in {400, 404, 405, 500} /\ res.text \in HandlerTexts

\* C28: a request the HTTP handler itself answers with 400, 404, 405 or 500,
\* and every OPTIONS request, leaves the session table as it was: no entry
\* is added, removed or bound to another transport.
C28_HandlerAnswersKeepTable ==
    [][AnsweredByHandler(last') => transports' = transports]_allVars

\* the handler has answered 400 'No valid session ID' while a session exists
C28_Witness ==
    /\ last.ev = "http" /\ last.status = 400
    /\ last.text = "Bad Request: No valid session ID provided"
    /\ DOMAIN transports # {}

\* the task was a GET or a DELETE on a recognised path
GetOrDelete(res) ==
    res.ev = "http" /\ res.method \in {"GET", "DELETE"} /\ res.url = "mcp"

\* the table holds transports only, and no GET or DELETE was answered 500
\* 'Transport not found'
OnlyRealTransports ==
    /\ \A s \in DOMAIN transports : transports[s] \in 1..nextT
    /\ GetOrDelete(last) => last.text # "Transport not found"

\* a GET or DELETE whose session id is in the table when the request is
\* handled goes to the transport the table holds for that id
HandedToStoredTransport ==
    (GetOrDelete(last') /\ last'.sid \in DOMAIN transports) =>
        /\ last'.invoked = transports[last'.sid]
        /\ last'.stored = transports[last'.sid]
        /\ last'.text # "Invalid or missing session ID"

InTable(t) == sessionId[t] # NoSid /\ Get(transports, sessionId[t]) = t

\* C30: the sessions share the one dispatcher, and binding or unbinding one
\* session does not disable another: a request the dispatcher has taken from
\* a session that is still in the table is answered through that session's
\* own transport, whatever other session was initialized or closed before.
C30_OtherSessionsStayServed ==
    \A c \in calls : InTable(c.from) => c.via = c.from

\* with two sessions in the table, the dispatcher has taken a request that
\* it will answer through the transport it arrived on
C30_Witness ==
    /\ Cardinality(DOMAIN transports) >= 2
    /\ \E c \in calls : InTable(c.from) /\ c.via = c.from

====
